---- MODULE Spec2Model ----
(***************************************************************************)
(* PALADIN attack correlation and threat-escalation engine.                *)
(*                                                                         *)
(* State machine of                                                        *)
(*   - the sequence store   (training/lstm_analyzer.py),                   *)
(*   - the two MITRE mappers (training/ensemble_predictor.py MITREMapper,  *)
(*     mitre/attack_mapper.py MITREAttackMapper),                          *)
(*   - the two fusion steps (PALADINEnsemble.predict on the event path,    *)
(*     MITREEnhancedPredictor.predict).                                    *)
(*                                                                         *)
(* Time is in whole seconds.  Confidences, anomaly scores and risk scores  *)
(* are fixed-point numbers with five decimals (Unit = 1.0).  A Python None *)
(* is the value None; a numeric field that may be None uses NoneNum.       *)
(***************************************************************************)
EXTENDS Integers, Sequences, FiniteSets, TLC

VARIABLES
    active_sequences,  \* LSTMSequenceAnalyzer.active_sequences: ip -> AttackSequence
    state_file,        \* /app/data/lstm_state.pkl: written yet, and the pickled map
    now,               \* the wall clock read by datetime.now()
    analysis,          \* what the last process_attack call returned or raised
    call,              \* the arguments of the last process_attack call
    calls,             \* number of handler calls made so far
    mitre_mapper,      \* the MITREMapper of the ensemble (ensemble_predictor.py)
    attack_mapper,     \* the MITREAttackMapper (attack_mapper.py)
    map_calls,         \* the direct map_attack calls made, with their results
    attack_history,    \* MITREEnhancedPredictor.attack_history
    prediction,        \* what the last MITREEnhancedPredictor.predict returned
    enriched,          \* the event the last PALADINEnsemble.predict returned
    verdicts,          \* the verdicts and the decision of that predict call
    threads,           \* the concurrent callers of process_attack: position and locals
    returned,          \* per source, the process_attack calls of threads that returned
    report,            \* the get_top_attackers call in progress: iterator and results
    campaign,          \* what the last generate_campaign_report call returned
    smtp               \* the SMTP emulator: its connection and handle_connection

storeVars == <<active_sequences, state_file, analysis, call>>
mapperVars == <<mitre_mapper, attack_mapper, map_calls>>
fusionVars == <<attack_history, prediction, enriched, verdicts>>
threadVars == <<threads, returned, report>>
vars == <<calls, now, storeVars, mapperVars, fusionVars, threadVars, campaign, smtp>>

----------------------------------------------------------------------------
(* Bounds of the model *)

\* capacity of the per-source deques (sequence_length of the analyzer)
MaxLength == 3
\* number of process_attack calls explored
MaxCalls == 4
\* number of map_attack calls explored
MaxMapCalls == 3
\* number of predict calls explored
MaxPredictions == 2
\* number of process_attack calls the concurrent callers make in all
MaxThreadCalls == 3
\* number of get_top_attackers calls explored
MaxReports == 1
\* longest attack history of the analysed sequences
MaxHistory == 7
\* largest number of sequences in an analysed store
MaxAttackers == 11
\* lines one SMTP client sends on a connection
MaxLines == 3
\* connections the SMTP server accepts
MaxConnections == 2
\* reads of the end of the stream followed within one connection
MaxEofReads == 2

(* Program constants *)

time_window == 3600
Unit == 100000

None == "None"
NoneNum == -1

----------------------------------------------------------------------------
(* Strings.  Python joins and searches strings character by character, so  *)
(* every name the model manipulates has its spelling.                      *)

Chars == [
    NORMAL |-> <<"N","O","R","M","A","L">>,
    UNKNOWN_THREAT |-> <<"U","N","K","N","O","W","N","_","T","H","R","E","A","T">>,
    BRUTE_FORCE |-> <<"B","R","U","T","E","_","F","O","R","C","E">>,
    DOS |-> <<"D","O","S">>,
    DDOS |-> <<"D","D","O","S">>,
    PORT_SCAN |-> <<"P","O","R","T","_","S","C","A","N">>,
    WEB_ATTACK |-> <<"W","E","B","_","A","T","T","A","C","K">>,
    BOTNET |-> <<"B","O","T","N","E","T">>,
    INFILTRATION |-> <<"I","N","F","I","L","T","R","A","T","I","O","N">>,
    HEARTBLEED |-> <<"H","E","A","R","T","B","L","E","E","D">>,
    UNKNOWN |-> <<"U","N","K","N","O","W","N">>,
    brute_force |-> <<"b","r","u","t","e","_","f","o","r","c","e">>,
    Sql_Injection |-> <<"S","q","l","_","I","n","j","e","c","t","i","o","n">>,
    SQL_INJECTION |-> <<"S","Q","L","_","I","N","J","E","C","T","I","O","N">>,
    reconnaissance_to_attack |-> <<"r","e","c","o","n","n","a","i","s","s","a","n","c","e","_","t","o","_","a","t","t","a","c","k">>,
    reconnaissance_to_infiltration |-> <<"r","e","c","o","n","n","a","i","s","s","a","n","c","e","_","t","o","_","i","n","f","i","l","t","r","a","t","i","o","n">>,
    persistent_brute_force |-> <<"p","e","r","s","i","s","t","e","n","t","_","b","r","u","t","e","_","f","o","r","c","e">>,
    distributed_attack |-> <<"d","i","s","t","r","i","b","u","t","e","d","_","a","t","t","a","c","k">>,
    botnet_activity |-> <<"b","o","t","n","e","t","_","a","c","t","i","v","i","t","y">>,
    web_exploitation |-> <<"w","e","b","_","e","x","p","l","o","i","t","a","t","i","o","n">>,
    reconnaissance |-> <<"r","e","c","o","n","n","a","i","s","s","a","n","c","e">>,
    infiltration |-> <<"i","n","f","i","l","t","r","a","t","i","o","n">>,
    botnet |-> <<"b","o","t","n","e","t">>
]

\* str.join: the spellings of the items with sep between consecutive ones
RECURSIVE Join(_, _)
Join(sep, items) ==
    IF Len(items) = 0 THEN <<>>
    ELSE IF Len(items) = 1 THEN Chars[items[1]]
    ELSE Chars[items[1]] \o sep \o Join(sep, Tail(items))

\* the Python operator "needle in haystack" on two strings
Contains(haystack, needle) ==
    \/ Len(needle) = 0
    \/ \E i \in 1..(Len(haystack) - Len(needle) + 1) :
          /\ haystack[i] = needle[1]
          /\ SubSeq(haystack, i, i + Len(needle) - 1) = needle

\* dict.get(key, default)
Get(d, key, default) == IF key \in DOMAIN d THEN d[key] ELSE default

Min(a, b) == IF a < b THEN a ELSE b

RECURSIVE SumSeq(_)
SumSeq(s) == IF Len(s) = 0 THEN 0 ELSE s[1] + SumSeq(Tail(s))

----------------------------------------------------------------------------
(* Timestamps.  A timestamp string is its local wall time in seconds and   *)
(* its zone suffix: "Z", an offset, "" (no zone) or text that is not ISO.  *)

UtcOffsets == [x \in {"+00:00"} |-> 0] @@ [x \in {"+01:00"} |-> 3600]

\* add_attack lines 49-50: a trailing Z becomes +00:00
ReplaceZ(timestamp) ==
    IF timestamp.suffix = "Z" THEN [timestamp EXCEPT !.suffix = "+00:00"]
    ELSE timestamp

\* datetime.fromisoformat accepts the string
IsIsoFormat(timestamp) == timestamp.suffix \in DOMAIN UtcOffsets \cup {""}

\* add_attack lines 52-56: the instant, a naive time being taken as UTC
current_time(timestamp) ==
    LET t == ReplaceZ(timestamp)
    IN  IF t.suffix = "" THEN t.local
        ELSE t.local - UtcOffsets[t.suffix]

----------------------------------------------------------------------------
(* AttackSequence *)

\* AttackSequence.__init__
NewAttackSequence(source_ip) ==
    [ source_ip          |-> source_ip,
      attacks            |-> <<>>,
      timestamps         |-> <<>>,
      services           |-> <<>>,
      ports              |-> <<>>,
      first_seen         |-> NoneNum,
      last_seen          |-> NoneNum,
      total_attacks      |-> 0,
      attack_types_count |-> << >> ]

\* deque(maxlen=max_length).append
DequeAppend(d, x) ==
    IF Len(d) >= MaxLength THEN Tail(d) \o <<x>> ELSE Append(d, x)

\* defaultdict(int)[key] += 1
Increment(counts, key) ==
    IF key \in DOMAIN counts
    THEN [counts EXCEPT ![key] = @ + 1]
    ELSE [k \in DOMAIN counts \cup {key} |->
             IF k = key THEN 1 ELSE counts[k]]

\* AttackSequence._clean_old_attacks: pop from the left while the oldest
\* entry is before last_seen - time_window
RECURSIVE clean_old_attacks(_)
clean_old_attacks(seq) ==
    IF Len(seq.timestamps) = 0 THEN seq
    ELSE IF seq.timestamps[1] < seq.last_seen - time_window
         THEN clean_old_attacks(
                 [seq EXCEPT !.timestamps = Tail(@),
                             !.attacks    = Tail(@),
                             !.services   = Tail(@),
                             !.ports      = Tail(@)])
         ELSE seq

\* add_attack with total_attacks recounted from the deque after eviction
add_attack_recount(seq, attack_type, timestamp, service, port) ==
    LET t == current_time(timestamp)
        cleaned == clean_old_attacks(
           [seq EXCEPT !.last_seen          = t,
                       !.attacks            = DequeAppend(@, attack_type),
                       !.timestamps         = DequeAppend(@, t),
                       !.services           = DequeAppend(@, service),
                       !.ports              = DequeAppend(@, port),
                       !.attack_types_count = Increment(@, attack_type)])
    IN  [cleaned EXCEPT !.total_attacks = Len(cleaned.attacks)]

\* AttackSequence.add_attack, for a timestamp that parses
add_attack(seq, attack_type, timestamp, service, port) ==
    LET t == current_time(timestamp)
    IN  clean_old_attacks(
           [seq EXCEPT !.last_seen          = t,
                       !.total_attacks      = @ + 1,
                       !.attacks            = DequeAppend(@, attack_type),
                       !.timestamps         = DequeAppend(@, t),
                       !.services           = DequeAppend(@, service),
                       !.ports              = DequeAppend(@, port),
                       !.attack_types_count = Increment(@, attack_type)])

\* AttackSequence.get_time_deltas
get_time_deltas(seq) ==
    IF Len(seq.timestamps) < 2 THEN <<>>
    ELSE [i \in 1..(Len(seq.timestamps) - 1) |->
             seq.timestamps[i + 1] - seq.timestamps[i]]

\* list(self.attacks)[-5:]
LastFive(s) == IF Len(s) <= 5 THEN s ELSE SubSeq(s, Len(s) - 4, Len(s))

\* AttackSequence.get_statistics.  attack_rate is a fraction num/den.
get_statistics(seq) ==
    LET defaults ==
          [ source_ip           |-> seq.source_ip,
            sequence_length     |-> Len(seq.attacks),
            total_attacks       |-> seq.total_attacks,
            duration_seconds    |-> 0,
            attack_rate         |-> [num |-> 0, den |-> 1],
            unique_attack_types |-> Cardinality(DOMAIN seq.attack_types_count),
            attack_distribution |-> seq.attack_types_count,
            recent_sequence     |-> LastFive(seq.attacks),
            first_seen          |-> NoneNum,
            last_seen           |-> NoneNum ]
    IN  IF Len(seq.attacks) = 0 \/ seq.first_seen = NoneNum
                                \/ seq.last_seen = NoneNum
        THEN defaults
        ELSE LET duration == seq.last_seen - seq.first_seen
             IN  [defaults EXCEPT
                    !.duration_seconds = duration,
                    !.attack_rate = [num |-> Len(seq.attacks),
                                     den |-> IF duration > 1 THEN duration ELSE 1],
                    !.first_seen = seq.first_seen,
                    !.last_seen  = seq.last_seen]

----------------------------------------------------------------------------
(* LSTMSequenceAnalyzer *)

\* LSTMSequenceAnalyzer._define_attack_patterns, in dictionary order
attack_patterns == <<
    [ name     |-> "reconnaissance_to_attack",
      pattern  |-> <<"PORT_SCAN", "BRUTE_FORCE">>,
      severity |-> "HIGH" ],
    [ name     |-> "reconnaissance_to_infiltration",
      pattern  |-> <<"PORT_SCAN", "WEB_ATTACK", "INFILTRATION">>,
      severity |-> "CRITICAL" ],
    [ name     |-> "persistent_brute_force",
      pattern  |-> <<"BRUTE_FORCE", "BRUTE_FORCE", "BRUTE_FORCE">>,
      severity |-> "HIGH" ],
    [ name     |-> "distributed_attack",
      pattern  |-> <<"DOS", "DDOS">>,
      severity |-> "CRITICAL" ],
    [ name     |-> "botnet_activity",
      pattern  |-> <<"BOTNET", "DOS">>,
      severity |-> "CRITICAL" ],
    [ name     |-> "web_exploitation",
      pattern  |-> <<"WEB_ATTACK", "WEB_ATTACK", "INFILTRATION">>,
      severity |-> "CRITICAL" ] >>

\* the separator of '->'.join
Arrow == <<"-", ">">>

\* _matches_pattern that needs a history longer than the pattern
matches_pattern_longer(attack_sequence, pattern) ==
    IF Len(attack_sequence) <= Len(pattern) THEN FALSE
    ELSE IF SubSeq(attack_sequence,
                   Len(attack_sequence) - Len(pattern) + 1,
                   Len(attack_sequence)) = pattern
         THEN TRUE
         ELSE Contains(Join(Arrow, attack_sequence), Join(Arrow, pattern))

\* LSTMSequenceAnalyzer._matches_pattern
matches_pattern(attack_sequence, pattern) ==
    IF Len(attack_sequence) < Len(pattern) THEN FALSE
    ELSE IF SubSeq(attack_sequence,
                   Len(attack_sequence) - Len(pattern) + 1,
                   Len(attack_sequence)) = pattern
         THEN TRUE
         ELSE Contains(Join(Arrow, attack_sequence), Join(Arrow, pattern))

\* the comprehension of _analyze_sequence lines 307-314: the matching
\* patterns, in library order
RECURSIVE MatchingFrom(_, _)
MatchingFrom(recent_attacks, i) ==
    IF i > Len(attack_patterns) THEN <<>>
    ELSE (IF matches_pattern(recent_attacks, attack_patterns[i].pattern)
          THEN <<[name     |-> attack_patterns[i].name,
                  severity |-> attack_patterns[i].severity]>>
          ELSE <<>>) \o MatchingFrom(recent_attacks, i + 1)

critical_attacks == {"INFILTRATION", "BOTNET", "DDOS", "HEARTBLEED"}

\* the four signals of _calculate_threat_score before weighting, each as a
\* fraction num/den: lines 357, 361, 365-369 and 374
length_score(seq) == [num |-> Min(Len(seq.attacks), 10), den |-> 10]

diversity_score(seq) ==
    [num |-> Min(Cardinality(DOMAIN seq.attack_types_count), 5), den |-> 5]

rate_score(seq) ==
    LET deltas == get_time_deltas(seq)
        n      == Len(deltas)
    IN  IF n = 0 THEN [num |-> 0, den |-> 1]
        ELSE IF 60 * n - SumSeq(deltas) > 0
             THEN [num |-> 60 * n - SumSeq(deltas), den |-> 60 * n]
             ELSE [num |-> 0, den |-> 60 * n]

critical_score(seq) ==
    [num |-> Cardinality({i \in 1..Len(seq.attacks) :
                             seq.attacks[i] \in critical_attacks}),
     den |-> IF Len(seq.attacks) > 0 THEN Len(seq.attacks) ELSE 1]

\* LSTMSequenceAnalyzer._calculate_threat_score.  The score is the exact
\* fraction num/den with den = 600 * max(#deltas,1) * max(#attacks,1):
\*   0.3*min(L/10,1) + 0.2*min(U/5,1) + 0.3*max(0, 1 - mean/60) + 0.2*c/L
calculate_threat_score(seq) ==
    LET L      == Len(seq.attacks)
        U      == Cardinality(DOMAIN seq.attack_types_count)
        deltas == get_time_deltas(seq)
        n      == Len(deltas)
        N      == IF n > 0 THEN n ELSE 1
        Lm     == IF L > 0 THEN L ELSE 1
        c      == Cardinality({i \in 1..L : seq.attacks[i] \in critical_attacks})
        length_part    == 18 * Min(L, 10) * N * Lm
        diversity_part == 24 * Min(U, 5) * N * Lm
        rate_part      == IF n = 0 THEN 0
                          ELSE IF 60 * n - SumSeq(deltas) > 0
                               THEN 3 * (60 * n - SumSeq(deltas)) * Lm
                               ELSE 0
        critical_part  == 120 * c * N
        den            == 600 * N * Lm
    IN  [ num |-> Min(length_part + diversity_part + rate_part + critical_part, den),
          den |-> den ]

\* score > tenths/10
ScoreAbove(score, tenths) == 10 * score.num > tenths * score.den

\* _determine_threat_level that looks at the score before the patterns
determine_threat_level_score_first(seq, patterns, behavioral_score) ==
    IF ScoreAbove(behavioral_score, 8) THEN "CRITICAL"
    ELSE IF ScoreAbove(behavioral_score, 6) THEN "HIGH"
    ELSE IF ScoreAbove(behavioral_score, 4) THEN "MEDIUM"
    ELSE IF \E i \in 1..Len(patterns) : patterns[i].severity = "CRITICAL"
    THEN "CRITICAL"
    ELSE IF Len(seq.attacks) >= 5 THEN "HIGH"
    ELSE IF Len(seq.attacks) >= 3 THEN "MEDIUM"
    ELSE "LOW"

\* LSTMSequenceAnalyzer._determine_threat_level
determine_threat_level(seq, patterns, behavioral_score) ==
    IF \E i \in 1..Len(patterns) : patterns[i].severity = "CRITICAL"
    THEN "CRITICAL"
    ELSE IF ScoreAbove(behavioral_score, 8) THEN "CRITICAL"
    ELSE IF ScoreAbove(behavioral_score, 6) THEN "HIGH"
    ELSE IF ScoreAbove(behavioral_score, 4) THEN "MEDIUM"
    ELSE IF Len(seq.attacks) >= 5 THEN "HIGH"
    ELSE IF Len(seq.attacks) >= 3 THEN "MEDIUM"
    ELSE "LOW"

\* the recommendations one matched pattern contributes (lines 407-413)
PatternRecommendations(name) ==
    (IF Contains(Chars[name], Chars["reconnaissance"])
     THEN <<"Block source IP - active reconnaissance detected">> ELSE <<>>)
    \o
    (IF Contains(Chars[name], Chars["infiltration"])
     THEN <<"URGENT: Isolate affected systems - infiltration in progress">> ELSE <<>>)
    \o
    (IF Contains(Chars[name], Chars["botnet"])
     THEN <<"Deploy botnet mitigation - coordinated attack detected">> ELSE <<>>)

RECURSIVE AllPatternRecommendations(_)
AllPatternRecommendations(patterns) ==
    IF Len(patterns) = 0 THEN <<>>
    ELSE PatternRecommendations(patterns[1].name)
         \o AllPatternRecommendations(Tail(patterns))

\* LSTMSequenceAnalyzer._generate_recommendations
generate_recommendations(seq, patterns) ==
    LET rate == get_statistics(seq).attack_rate
    IN  AllPatternRecommendations(patterns)
        \o (IF Len(seq.attacks) >= 5
            THEN <<"Implement rate limiting for this IP">> ELSE <<>>)
        \o (IF 10 * rate.num > rate.den
            THEN <<"Consider temporary IP ban - high attack rate">> ELSE <<>>)
        \o (IF Cardinality(DOMAIN seq.attack_types_count) >= 3
            THEN <<"Alert SOC team - sophisticated multi-vector attack">> ELSE <<>>)

\* LSTMSequenceAnalyzer._analyze_sequence
analyze_sequence(seq) ==
    LET base ==
          [ outcome           |-> "returned",
            sequence_detected |-> TRUE,
            source_ip         |-> seq.source_ip,
            sequence_length   |-> Len(seq.attacks),
            statistics        |-> get_statistics(seq),
            patterns_detected |-> <<>>,
            threat_level      |-> "MEDIUM",
            behavioral_score  |-> [num |-> 0, den |-> 1],
            recommendations   |-> <<>> ]
    IN  IF Len(seq.attacks) < 2 THEN base
        ELSE LET patterns == MatchingFrom(seq.attacks, 1)
                 score    == calculate_threat_score(seq)
             IN  [base EXCEPT
                    !.patterns_detected = patterns,
                    !.behavioral_score  = score,
                    !.threat_level      = determine_threat_level(seq, patterns, score),
                    !.recommendations   = generate_recommendations(seq, patterns)]

\* dict.items(): the entries of a dictionary, one after the other
RECURSIVE Items(_)
Items(d) ==
    IF DOMAIN d = {} THEN <<>>
    ELSE LET k == CHOOSE x \in DOMAIN d : TRUE
         IN  <<[key |-> k, value |-> d[k]]>>
             \o Items([x \in DOMAIN d \ {k} |-> d[x]])

\* dict(items)
FromItems(items) ==
    [k \in {items[i].key : i \in 1..Len(items)} |->
        items[CHOOSE i \in 1..Len(items) : items[i].key = k].value]

\* what pickle writes for a deque: its maxlen and its items
PickleDeque(d) == [maxlen |-> MaxLength, items |-> d]

\* deque(items, maxlen), as pickle rebuilds it
UnpickleDeque(p) ==
    IF Len(p.items) > p.maxlen
    THEN SubSeq(p.items, Len(p.items) - p.maxlen + 1, Len(p.items))
    ELSE p.items

\* what pickle writes for one AttackSequence: the attributes of the object
PickleSequence(seq) ==
    [ source_ip          |-> seq.source_ip,
      max_length         |-> MaxLength,
      time_window        |-> time_window,
      attacks            |-> PickleDeque(seq.attacks),
      timestamps         |-> PickleDeque(seq.timestamps),
      services           |-> PickleDeque(seq.services),
      ports              |-> PickleDeque(seq.ports),
      first_seen         |-> seq.first_seen,
      last_seen          |-> seq.last_seen,
      total_attacks      |-> seq.total_attacks,
      attack_types_count |-> Items(seq.attack_types_count) ]

\* the AttackSequence pickle rebuilds from what it wrote
UnpickleSequence(p) ==
    [ source_ip          |-> p.source_ip,
      attacks            |-> UnpickleDeque(p.attacks),
      timestamps         |-> UnpickleDeque(p.timestamps),
      services           |-> UnpickleDeque(p.services),
      ports              |-> UnpickleDeque(p.ports),
      first_seen         |-> p.first_seen,
      last_seen          |-> p.last_seen,
      total_attacks      |-> p.total_attacks,
      attack_types_count |-> FromItems(p.attack_types_count) ]

\* pickle.dump(self.active_sequences, f): the stream written
pickle_dump(sequences) ==
    Items([ip \in DOMAIN sequences |-> PickleSequence(sequences[ip])])

\* pickle.load that rebuilds total_attacks from the length of the deque
pickle_load_recount(stream) ==
    LET loaded == FromItems(stream)
    IN  [ip \in DOMAIN loaded |->
            [UnpickleSequence(loaded[ip]) EXCEPT
                !.total_attacks = Len(loaded[ip].attacks.items)]]

\* pickle.load(f) of a complete stream
pickle_load(stream) ==
    LET loaded == FromItems(stream)
    IN  [ip \in DOMAIN loaded |-> UnpickleSequence(loaded[ip])]

\* the state file before the first save
NoStateFile == [saved |-> FALSE, complete |-> FALSE, stream |-> <<>>]

\* the state file after open(state_file, 'wb') and before pickle.dump wrote
\* the whole stream
TruncatedStateFile == [saved |-> TRUE, complete |-> FALSE, stream |-> <<>>]

\* LSTMSequenceAnalyzer._save_state
save_state(sequences) ==
    [saved |-> TRUE, complete |-> TRUE, stream |-> pickle_dump(sequences)]

\* _load_state that drops, while loading, the sequences last seen more than
\* two time windows before the wall clock
load_state_expiring(file, sequences) ==
    IF ~file.saved THEN sequences
    ELSE IF ~file.complete THEN sequences
    ELSE LET loaded == pickle_load(file.stream)
         IN  [ip \in {i \in DOMAIN loaded :
                         \/ loaded[i].last_seen = NoneNum
                         \/ loaded[i].last_seen >= now - 2 * time_window}
                 |-> loaded[ip]]

\* LSTMSequenceAnalyzer._load_state into an analyzer holding `sequences`:
\* nothing is loaded when the file does not exist or pickle.load raises
load_state(file, sequences) ==
    IF ~file.saved THEN sequences
    ELSE IF ~file.complete THEN sequences
    ELSE pickle_load(file.stream)

\* _cleanup_old_sequences with a cutoff of one time window instead of two
cleanup_one_window(sequences, t) ==
    LET cutoff_time == t - time_window
        to_remove   == {ip \in DOMAIN sequences :
                          /\ sequences[ip].last_seen # NoneNum
                          /\ sequences[ip].last_seen < cutoff_time}
    IN  [ip \in DOMAIN sequences \ to_remove |-> sequences[ip]]

\* LSTMSequenceAnalyzer._cleanup_old_sequences at wall time t
cleanup_old_sequences(sequences, t) ==
    LET cutoff_time == t - time_window * 2
        to_remove   == {ip \in DOMAIN sequences :
                          /\ sequences[ip].last_seen # NoneNum
                          /\ sequences[ip].last_seen < cutoff_time}
    IN  [ip \in DOMAIN sequences \ to_remove |-> sequences[ip]]

\* LSTMSequenceAnalyzer.get_active_attackers
get_active_attackers(sequences) ==
    [ip \in {i \in DOMAIN sequences : Len(sequences[i].attacks) > 0}
        |-> get_statistics(sequences[ip])]

\* process_attack lines 260-262: the fields read from the log, with defaults
source_ip_of(log_data) ==
    Get(log_data, "src_ip", Get(log_data, "source_ip", "unknown"))
service_of(log_data) == Get(log_data, "service", "unknown")
port_of(log_data) == Get(log_data, "destination_port", 0)

\* process_attack lines 269-274: get or create the sequence of the source
GetOrCreate(sequences, source_ip) ==
    IF source_ip \in DOMAIN sequences THEN sequences
    ELSE [ip \in DOMAIN sequences \cup {source_ip} |->
             IF ip = source_ip THEN NewAttackSequence(source_ip)
             ELSE sequences[ip]]

\* the value of `analysis` when process_attack returns None or raises
NoAnalysis(outcome) ==
    [ outcome           |-> outcome,
      sequence_detected |-> FALSE,
      source_ip         |-> None,
      sequence_length   |-> 0,
      statistics        |-> None,
      patterns_detected |-> <<>>,
      threat_level      |-> None,
      behavioral_score  |-> [num |-> 0, den |-> 1],
      recommendations   |-> <<>> ]

\* process_attack that gets or creates the sequence of the source before it
\* looks at the attack type
process_attack_registering(sequences, file, log_data, attack_type, timestamp, t) ==
    LET source_ip == source_ip_of(log_data)
        created   == GetOrCreate(sequences, source_ip)
    IN  IF attack_type = "NORMAL"
        THEN [sequences |-> created, file |-> file,
              result |-> NoAnalysis("None")]
        ELSE IF ~IsIsoFormat(ReplaceZ(timestamp))
        THEN [sequences |-> created, file |-> file,
              result |-> NoAnalysis("raised")]
        ELSE LET sequence == add_attack(created[source_ip], attack_type, timestamp,
                                        service_of(log_data), port_of(log_data))
                 added    == [created EXCEPT ![source_ip] = sequence]
                 swept    == cleanup_old_sequences(added, t)
             IN  [sequences |-> swept,
                  file      |-> save_state(swept),
                  result    |-> analyze_sequence(sequence)]

\* LSTMSequenceAnalyzer.process_attack as a function of the store: the new
\* map of sequences, the new content of the state file and the result
process_attack(sequences, file, log_data, attack_type, timestamp, t) ==
    LET source_ip == source_ip_of(log_data)
        created   == GetOrCreate(sequences, source_ip)
    IN  IF attack_type = "NORMAL"
        THEN [sequences |-> sequences, file |-> file,
              result |-> NoAnalysis("None")]
        ELSE IF ~IsIsoFormat(ReplaceZ(timestamp))
        THEN \* add_attack raises ValueError before it changes the sequence
             [sequences |-> created, file |-> file,
              result |-> NoAnalysis("raised")]
        ELSE LET sequence == add_attack(created[source_ip], attack_type, timestamp,
                                        service_of(log_data), port_of(log_data))
                 added    == [created EXCEPT ![source_ip] = sequence]
                 swept    == cleanup_old_sequences(added, t)
             IN  [sequences |-> swept,
                  file      |-> save_state(swept),
                  result    |-> analyze_sequence(sequence)]

----------------------------------------------------------------------------
(* MITRE knowledge base and the two mappers *)

\* MITREMapper._create_fallback_mappings: the embedded table
FallbackAttackMappings ==
    [ NORMAL         |-> [tactics |-> <<>>, techniques |-> <<>>, severity |-> "INFO"],
      UNKNOWN_THREAT |-> [tactics |-> <<"Unknown">>, techniques |-> <<>>,
                          severity |-> "HIGH"],
      BRUTE_FORCE    |-> [tactics |-> <<"Credential Access">>,
                          techniques |-> <<[id |-> "T1110", name |-> "Brute Force"]>>,
                          severity |-> "HIGH"],
      DOS            |-> [tactics |-> <<"Impact">>,
                          techniques |-> <<[id |-> "T1498", name |-> "Network DoS"]>>,
                          severity |-> "CRITICAL"],
      DDOS           |-> [tactics |-> <<"Impact">>,
                          techniques |-> <<[id |-> "T1498", name |-> "Network DoS"]>>,
                          severity |-> "CRITICAL"],
      PORT_SCAN      |-> [tactics |-> <<"Discovery">>,
                          techniques |-> <<[id |-> "T1046",
                                            name |-> "Network Service Discovery"]>>,
                          severity |-> "MEDIUM"] ]

FallbackSeverityLevels ==
    [ INFO     |-> [score |-> 1, priority |-> "P4", response_time |-> "None"],
      MEDIUM   |-> [score |-> 3, priority |-> "P2", response_time |-> "4 hours"],
      HIGH     |-> [score |-> 4, priority |-> "P1", response_time |-> "1 hour"],
      CRITICAL |-> [score |-> 5, priority |-> "P0", response_time |-> "Immediate"] ]

\* str.upper, letter by letter
UpperChar(c) ==
    CASE c = "a" -> "A" [] c = "b" -> "B" [] c = "c" -> "C" [] c = "d" -> "D"
      [] c = "e" -> "E" [] c = "f" -> "F" [] c = "g" -> "G" [] c = "h" -> "H"
      [] c = "i" -> "I" [] c = "j" -> "J" [] c = "k" -> "K" [] c = "l" -> "L"
      [] c = "m" -> "M" [] c = "n" -> "N" [] c = "o" -> "O" [] c = "p" -> "P"
      [] c = "q" -> "Q" [] c = "r" -> "R" [] c = "s" -> "S" [] c = "t" -> "T"
      [] c = "u" -> "U" [] c = "v" -> "V" [] c = "w" -> "W" [] c = "x" -> "X"
      [] c = "y" -> "Y" [] c = "z" -> "Z" [] OTHER -> c

\* the name spelled by a sequence of characters
Spelled(cs) == CHOOSE name \in DOMAIN Chars : Chars[name] = cs

Upper(name) == Spelled([i \in 1..Len(Chars[name]) |-> UpperChar(Chars[name][i])])

\* round(x, 2) and round(x, 4) of a non-negative fixed-point number: to the
\* nearest multiple of `step`, a tie going to the even multiple
RoundTo(x, step) ==
    LET q == x \div step
        r == x % step
    IN  IF 2 * r > step THEN (q + 1) * step
        ELSE IF 2 * r < step THEN q * step
        ELSE IF q % 2 = 0 THEN q * step ELSE (q + 1) * step

Round2(x) == RoundTo(x, Unit \div 100)
Round4(x) == RoundTo(x, Unit \div 10000)

\* base_score * confidence, or base_score when confidence is None
\* (map_attack lines 69-72 / 79-83)
RiskScore(base_score, confidence) ==
    IF confidence = NoneNum THEN base_score * Unit
    ELSE base_score * confidence

Raised(error) == [outcome |-> "raised", error |-> error]

\* MITREMapper.map_attack (ensemble_predictor.py)
map_attack(mapper, attack_type_in, confidence) ==
    LET upper       == Upper(attack_type_in)
        attack_type == IF upper \in DOMAIN mapper.attack_mappings THEN upper
                       ELSE "UNKNOWN_THREAT"
    IN  IF attack_type \notin DOMAIN mapper.attack_mappings
        THEN Raised("KeyError")
        ELSE LET mapping       == mapper.attack_mappings[attack_type]
                 severity      == Get(mapping, "severity", "MEDIUM")
                 severity_info == Get(mapper.severity_levels, severity, << >>)
                 base_score    == Get(severity_info, "score", 3)
             IN  [ outcome       |-> "returned",
                   attack_type   |-> attack_type,
                   tactics       |-> Get(mapping, "tactics", <<>>),
                   techniques    |-> Get(mapping, "techniques", <<>>),
                   severity      |-> severity,
                   priority      |-> Get(severity_info, "priority", "P2"),
                   response_time |-> Get(severity_info, "response_time", "Unknown"),
                   risk_score    |-> Round2(RiskScore(base_score, confidence)),
                   description   |-> Get(mapping, "description", ""),
                   mitigation    |-> Get(mapping, "mitigation", "") ]

\* any(tactic in related_tactics for tactic in tactics)
AnyTacticIn(tactics, related_tactics) ==
    \E i \in 1..Len(tactics) : \E j \in 1..Len(related_tactics) :
        tactics[i] = related_tactics[j]

\* MITREAttackMapper._identify_kill_chain_phase: the first phase, in table
\* order, one of whose related tactics is among the tactics
RECURSIVE identify_kill_chain_phase(_, _)
identify_kill_chain_phase(kill_chain_mapping, tactics) ==
    IF Len(kill_chain_mapping) = 0 THEN None
    ELSE IF AnyTacticIn(tactics,
                        Get(kill_chain_mapping[1].info, "related_tactics", <<>>))
         THEN kill_chain_mapping[1].phase
         ELSE identify_kill_chain_phase(Tail(kill_chain_mapping), tactics)

\* MITREAttackMapper.map_attack (attack_mapper.py) at wall time t
attack_mapper_map_attack(mapper, attack_type_in, confidence, t) ==
    LET upper       == Upper(attack_type_in)
        attack_type == IF upper \in DOMAIN mapper.attack_mappings THEN upper
                       ELSE "UNKNOWN_THREAT"
    IN  IF attack_type \notin DOMAIN mapper.attack_mappings
        THEN Raised("KeyError")
        ELSE LET mapping == mapper.attack_mappings[attack_type]
             IN  IF "severity" \notin DOMAIN mapping
                 THEN Raised("KeyError")
                 ELSE LET severity_info ==
                              Get(mapper.severity_levels, mapping.severity, << >>)
                          base_score == Get(severity_info, "score", 3)
                      IN  [ outcome          |-> "returned",
                            attack_type      |-> attack_type,
                            timestamp        |-> t,
                            confidence       |-> confidence,
                            tactics          |-> Get(mapping, "tactics", <<>>),
                            techniques       |-> Get(mapping, "techniques", <<>>),
                            severity         |-> mapping.severity,
                            severity_info    |-> severity_info,
                            risk_score       |-> Round2(RiskScore(base_score, confidence)),
                            description      |-> Get(mapping, "description", ""),
                            detection        |-> Get(mapping, "detection", ""),
                            mitigation       |-> Get(mapping, "mitigation", ""),
                            indicators       |-> Get(mapper.attack_indicators,
                                                     attack_type, << >>),
                            kill_chain_phase |-> identify_kill_chain_phase(
                                                     mapper.kill_chain_mapping,
                                                     Get(mapping, "tactics", <<>>)) ]

\* MITREMapper.__init__ / _load_mitre_matrix: a file that cannot be read or
\* parsed gives the embedded table
LoadMitreMapper(file) ==
    IF file.status = "ok"
    THEN [ loaded          |-> TRUE,
           attack_mappings |-> Get(file.data, "attack_mappings", << >>),
           severity_levels |-> Get(file.data, "severity_levels", << >>) ]
    ELSE [ loaded          |-> TRUE,
           attack_mappings |-> FallbackAttackMappings,
           severity_levels |-> FallbackSeverityLevels ]

NoAttackMapper(state) ==
    [ state              |-> state,
      attack_mappings    |-> << >>,
      severity_levels    |-> << >>,
      kill_chain_mapping |-> <<>>,
      attack_indicators  |-> << >> ]

\* MITREAttackMapper.__init__ / _load_mitre_matrix: a file that cannot be
\* read or parsed makes the constructor raise
LoadAttackMapper(file) ==
    IF file.status = "ok"
    THEN [ state              |-> "ready",
           attack_mappings    |-> Get(file.data, "attack_mappings", << >>),
           severity_levels    |-> Get(file.data, "severity_levels", << >>),
           kill_chain_mapping |-> Get(file.data, "kill_chain_mapping", <<>>),
           attack_indicators  |-> Get(file.data, "attack_indicators", << >>) ]
    ELSE NoAttackMapper("failed")

----------------------------------------------------------------------------
(* Decision fusion *)

anomaly_threshold == -15000
confidence_threshold == 70000

\* the ensemble decision with the anomaly magnitude taken as the confidence
\* of an attack both detectors agree on
EnsembleDecisionAnomalyConfidence(anomaly_score, predicted_class, confidence) ==
    LET is_anomaly == anomaly_score < anomaly_threshold
    IN  IF is_anomaly
        THEN [ prediction |-> IF predicted_class # "NORMAL" THEN predicted_class
                              ELSE "UNKNOWN_THREAT",
               confidence |-> -anomaly_score,
               detection_method |-> IF predicted_class # "NORMAL" THEN "ENSEMBLE"
                                    ELSE "UNSUPERVISED",
               is_anomaly |-> is_anomaly ]
        ELSE IF predicted_class # "NORMAL" /\ confidence > confidence_threshold
        THEN [ prediction |-> predicted_class, confidence |-> confidence,
               detection_method |-> "SUPERVISED", is_anomaly |-> is_anomaly ]
        ELSE [ prediction |-> "NORMAL",
               confidence |-> IF predicted_class # "NORMAL"
                              THEN Unit - confidence ELSE confidence,
               detection_method |-> "BASELINE", is_anomaly |-> is_anomaly ]

\* MITREEnhancedPredictor.predict lines 66-94: the ensemble decision from the
\* Isolation Forest score and the Random Forest class and confidence
EnsembleDecision(anomaly_score, predicted_class, confidence) ==
    LET is_anomaly == anomaly_score < anomaly_threshold
    IN  IF is_anomaly /\ predicted_class # "NORMAL"
        THEN [ prediction |-> predicted_class, confidence |-> confidence,
               detection_method |-> "ENSEMBLE", is_anomaly |-> is_anomaly ]
        ELSE IF is_anomaly /\ predicted_class = "NORMAL"
        THEN [ prediction |-> "UNKNOWN_THREAT",
               confidence |-> IF anomaly_score < 0 THEN -anomaly_score
                              ELSE anomaly_score,
               detection_method |-> "UNSUPERVISED", is_anomaly |-> is_anomaly ]
        ELSE IF ~is_anomaly /\ predicted_class # "NORMAL"
                /\ confidence > confidence_threshold
        THEN [ prediction |-> predicted_class, confidence |-> confidence,
               detection_method |-> "SUPERVISED", is_anomaly |-> is_anomaly ]
        ELSE [ prediction |-> "NORMAL",
               confidence |-> IF predicted_class # "NORMAL"
                              THEN Unit - confidence ELSE confidence,
               detection_method |-> "BASELINE", is_anomaly |-> is_anomaly ]

\* random_forest.classes_, which scikit-learn keeps sorted
classes_ == <<"BRUTE_FORCE", "NORMAL">>

\* np.argmax: the first index holding the largest value
ArgMax(v) ==
    CHOOSE i \in 1..Len(v) :
        /\ \A j \in 1..Len(v) : v[j] <= v[i]
        /\ \A j \in 1..(i - 1) : v[j] < v[i]

\* MITREEnhancedPredictor.predict: the result and the new attack history
enhanced_predict(mapper, history, anomaly_score, class_probabilities, t) ==
    LET predicted_class_idx == ArgMax(class_probabilities)
        predicted_class == classes_[predicted_class_idx]
        confidence == class_probabilities[predicted_class_idx]
        d == EnsembleDecision(anomaly_score, predicted_class, confidence)
        mitre_mapping ==
            IF d.prediction # "NORMAL"
            THEN attack_mapper_map_attack(mapper, d.prediction, d.confidence, t)
            ELSE [outcome |-> "absent"]
    IN  IF mitre_mapping.outcome = "raised"
        THEN [ history |-> history, result |-> mitre_mapping ]
        ELSE [ history |-> IF mitre_mapping.outcome = "returned"
                           THEN Append(history, mitre_mapping) ELSE history,
               result  |-> [ outcome          |-> "returned",
                             timestamp        |-> t,
                             prediction       |-> d.prediction,
                             confidence       |-> d.confidence,
                             detection_method |-> d.detection_method,
                             anomaly_score    |-> anomaly_score,
                             is_anomaly       |-> d.is_anomaly,
                             class_probabilities |-> class_probabilities,
                             mitre_mapping    |-> mitre_mapping ] ]

\* PALADINEnsemble.predict lines 320-331: the final classification from the
\* two verdicts, either of which is (None, None) when its detector is
\* unavailable or failed
FinalClassification(unsupervised, supervised) ==
    IF supervised.attack_type \notin {None, ""} /\ supervised.attack_type # "NORMAL"
    THEN [ final_status |-> "ATTACK", final_type |-> supervised.attack_type,
           final_confidence |-> supervised.confidence ]
    ELSE IF unsupervised.is_anomaly = "True"
    THEN [ final_status |-> "ANOMALY", final_type |-> "UNKNOWN_THREAT",
           final_confidence |->
               IF unsupervised.score \notin {NoneNum, 0}
               THEN (IF unsupervised.score < 0 THEN -unsupervised.score
                     ELSE unsupervised.score)
               ELSE Unit \div 2 ]
    ELSE [ final_status |-> "NORMAL", final_type |-> "NORMAL",
           final_confidence |->
               IF supervised.confidence \notin {NoneNum, 0}
               THEN supervised.confidence
               ELSE 9 * (Unit \div 10) ]

mitre_enabled == TRUE
lstm_enabled == TRUE

\* round(x, 4) if x else None
Round4OrNone(x) == IF x \in {NoneNum, 0} THEN NoneNum ELSE
                   IF x < 0 THEN -Round4(-x) ELSE Round4(x)

\* PALADINEnsemble.predict: the enriched event, the new store and state file,
\* and what process_attack returned when it was called
predict(mapper, sequences, file, log_data, unsupervised, supervised, t) ==
    LET f == FinalClassification(unsupervised, supervised)
        mapped ==
            IF mitre_enabled /\ f.final_type # "NORMAL"
            THEN map_attack(mapper, f.final_type, f.final_confidence)
            ELSE [outcome |-> "absent"]
        called == lstm_enabled /\ f.final_type # "NORMAL"
        timestamp == Get(log_data, "timestamp", [local |-> t, suffix |-> ""])
        r == IF called
             THEN process_attack(sequences, file, log_data, f.final_type, timestamp, t)
             ELSE [sequences |-> sequences, file |-> file,
                   result |-> NoAnalysis("not called")]
    IN  [ sequences |-> r.sequences,
          file      |-> r.file,
          called    |-> called,
          call      |-> [log_data |-> log_data, attack_type |-> f.final_type,
                         timestamp |-> timestamp],
          result    |-> r.result,
          verdicts  |-> [ outcome          |-> "returned",
                          unsupervised     |-> unsupervised,
                          supervised       |-> supervised,
                          final_status     |-> f.final_status,
                          final_type       |-> f.final_type,
                          final_confidence |-> f.final_confidence ],
          log_data  |->
            [ outcome          |-> "returned",
              log_data         |-> log_data,
              ai_final_status  |-> f.final_status,
              ai_attack_type   |-> f.final_type,
              ai_confidence    |-> Round4(f.final_confidence),
              ai_unsupervised  |-> [ is_anomaly |-> unsupervised.is_anomaly,
                                     score |-> Round4OrNone(unsupervised.score) ],
              ai_supervised    |-> [ attack_type |-> supervised.attack_type,
                                     confidence |-> Round4OrNone(supervised.confidence) ],
              mitre            |-> IF mapped.outcome = "returned" THEN mapped
                                   ELSE [outcome |-> "absent"],
              lstm             |-> IF r.result.outcome = "returned" THEN r.result
                                   ELSE NoAnalysis("absent") ] ]

----------------------------------------------------------------------------
(* The reports of the analyzer *)

\* a > b on fractions
Greater(a, b) == a.num * b.den > b.num * a.den

\* list.sort(key, reverse=True): descending by key, equal keys keeping their
\* order; keys is the sequence of the keys (fractions) of the items
SortDescending(items, keys) ==
    LET n == Len(items)
        rank(i) == Cardinality({j \in 1..n : Greater(keys[j], keys[i])})
                   + Cardinality({j \in 1..(i - 1) :
                                     ~Greater(keys[j], keys[i])
                                     /\ ~Greater(keys[i], keys[j])})
                   + 1
    IN  [k \in 1..n |-> items[CHOOSE i \in 1..n : rank(i) = k]]

\* LSTMSequenceAnalyzer.get_top_attackers(n), called while no other thread
\* changes the store
get_top_attackers(sequences, n) ==
    LET items     == Items(sequences)
        attackers == [i \in 1..Len(items) |->
                         get_statistics(items[i].value) @@
                         [threat_score |->
                             calculate_threat_score(items[i].value)]]
        sorted    == SortDescending(attackers,
                         [i \in 1..Len(items) |-> attackers[i].threat_score])
    IN  SubSeq(sorted, 1, Min(n, Len(sorted)))

\* the names of the patterns _analyze_sequence detects in the sequences, one
\* entry per detection, in iteration order (lines 476-479)
RECURSIVE DetectedNames(_)
DetectedNames(items) ==
    IF Len(items) = 0 THEN <<>>
    ELSE LET patterns == analyze_sequence(items[1].value).patterns_detected
         IN  [i \in 1..Len(patterns) |-> patterns[i].name]
             \o DetectedNames(Tail(items))

\* the keys of pattern_counts in insertion order
RECURSIVE FirstOccurrences(_)
FirstOccurrences(names) ==
    IF Len(names) = 0 THEN <<>>
    ELSE LET front == FirstOccurrences(SubSeq(names, 1, Len(names) - 1))
             last  == names[Len(names)]
         IN  IF \E i \in 1..Len(front) : front[i] = last
             THEN front ELSE Append(front, last)

\* LSTMSequenceAnalyzer.generate_campaign_report at wall-clock time t
generate_campaign_report(sequences, t) ==
    LET names  == DetectedNames(Items(sequences))
        keys   == FirstOccurrences(names)
        pattern_counts ==
            [i \in 1..Len(keys) |->
                [ pattern     |-> keys[i],
                  occurrences |-> Cardinality({j \in 1..Len(names) :
                                                 names[j] = keys[i]}) ]]
    IN  [ outcome                  |-> "returned",
          timestamp                |-> t,
          total_active_attackers   |-> Cardinality(DOMAIN sequences),
          top_attackers            |-> get_top_attackers(sequences, 5),
          attack_patterns_detected |->
              SortDescending(pattern_counts,
                  [i \in 1..Len(keys) |->
                      [num |-> pattern_counts[i].occurrences, den |-> 1]]),
          recommendations          |->
              (IF Cardinality(DOMAIN sequences) > 10
               THEN <<"ALERT: High number of active attackers - possible coordinated attack">>
               ELSE <<>>)
              \o
              (IF Len(pattern_counts) > 0
               THEN <<"Multiple attack patterns detected - review security posture">>
               ELSE <<>>) ]

----------------------------------------------------------------------------
(* Inputs *)

Sources == {"10.0.0.5", "192.168.66.6"}

\* events as the transport delivers them: one with every field, one that
\* names its source under source_ip and has no service and no port
LogInputs ==
    { [src_ip |-> "10.0.0.5", service |-> "SSH", destination_port |-> 2222],
      [source_ip |-> "192.168.66.6"] }

AttackTypeInputs == {"NORMAL", "PORT_SCAN", "BRUTE_FORCE"}

TimestampInputs ==
    { [local |-> 0,    suffix |-> "Z"],
      [local |-> 1,    suffix |-> ""],
      [local |-> 3601, suffix |-> "+01:00"],
      [local |-> 3602, suffix |-> "Z"],
      [local |-> 0,    suffix |-> "not-a-date"] }

ClockTimes == {3602, 7300}

\* lines an SMTP client sends, each with what handle_connection lines 50-55
\* make of it: the line is stripped and upper-cased, split at the first ':'
\* and the first word of the left part is the command; a blank line has none
SmtpLines ==
    { [text |-> "HELO client",       command |-> "HELO", argument |-> None],
      [text |-> "mail from:<a@b.c>", command |-> "MAIL", argument |-> "<A@B.C>"],
      [text |-> "RCPT TO:<x@y.z>",   command |-> "RCPT", argument |-> "<X@Y.Z>"],
      [text |-> "DATA",              command |-> "DATA", argument |-> None],
      [text |-> "hello there",       command |-> "HELLO", argument |-> None],
      [text |-> ".",                 command |-> ".",    argument |-> None],
      [text |-> "QUIT",              command |-> "QUIT", argument |-> None],
      [text |-> "",                  command |-> None,   argument |-> None] }

\* attack histories of one source, as the first entries of repeated cycles
HistoryCycles ==
    { <<"PORT_SCAN">>,
      <<"PORT_SCAN", "BRUTE_FORCE">>,
      <<"PORT_SCAN", "BRUTE_FORCE", "BRUTE_FORCE", "BRUTE_FORCE">>,
      <<"BRUTE_FORCE">>,
      <<"DOS", "DDOS">>,
      <<"DDOS">>,
      <<"DOS">>,
      <<"BOTNET", "DOS">>,
      <<"DDOS", "BOTNET", "HEARTBLEED">>,
      <<"PORT_SCAN", "WEB_ATTACK", "INFILTRATION">> }

Cycled(cycle, n) == [i \in 1..n |-> cycle[((i - 1) % Len(cycle)) + 1]]

HistoryInputs == {Cycled(c, n) : c \in HistoryCycles, n \in 2..MaxHistory}

\* seconds between consecutive events of a history; negative when each
\* event is stamped earlier than the one before
TimeStepInputs == {1, 60, 100, -1}

\* the addresses of the sources of an analysed store
AttackerAddresses ==
    << "10.0.1.1", "10.0.1.2", "10.0.1.3", "10.0.1.4", "10.0.1.5",
       "10.0.1.6", "10.0.1.7", "10.0.1.8", "10.0.1.9", "10.0.1.10",
       "10.0.1.11", "10.0.1.12", "10.0.1.13" >>

\* the AttackSequence of source_ip after one add_attack per entry of the
\* history, the first at second 1000 and the next ones `step` seconds apart,
\* in an analyzer whose sequence_length is at least MaxHistory: nothing is
\* evicted, the whole history being far shorter than the time window
RecordedSequence(source_ip, history, step) ==
    LET n == Len(history)
    IN  [ source_ip          |-> source_ip,
          attacks            |-> history,
          timestamps         |-> [i \in 1..n |-> 1000 + (i - 1) * step],
          services           |-> [i \in 1..n |-> "unknown"],
          ports              |-> [i \in 1..n |-> 0],
          first_seen         |-> NoneNum,
          last_seen          |-> 1000 + (n - 1) * step,
          total_attacks      |-> n,
          attack_types_count |->
              [a \in {history[i] : i \in 1..n} |->
                  Cardinality({i \in 1..n : history[i] = a})] ]

\* stores of n sources that all sent the same history
RecordedStore(n, history, step) ==
    [ip \in {AttackerAddresses[i] : i \in 1..n} |->
        RecordedSequence(ip, history, step)]

\* events of the concurrent callers
ThreadAttackTypes == {"PORT_SCAN", "BRUTE_FORCE"}
ThreadTimestamps == { [local |-> 3602, suffix |-> "Z"] }

\* contents of the matrix file the mappers are constructed from
FullMatrix ==
    [ status |-> "ok",
      data |->
        [ attack_mappings |->
            [ NORMAL         |-> [tactics |-> <<>>, techniques |-> <<>>,
                                  severity |-> "INFO"],
              UNKNOWN_THREAT |-> [tactics |-> <<"Unknown">>, techniques |-> <<>>,
                                  severity |-> "HIGH",
                                  description |-> "Anomalous behaviour"],
              BRUTE_FORCE    |-> [tactics |-> <<"Credential Access", "Initial Access">>,
                                  techniques |-> <<[id |-> "T1110", name |-> "Brute Force"]>>,
                                  severity |-> "HIGH",
                                  mitigation |-> "Account lockout"],
              PORT_SCAN      |-> [tactics |-> <<"Discovery", "Reconnaissance">>,
                                  techniques |-> <<[id |-> "T1046",
                                                    name |-> "Network Service Discovery"]>>,
                                  severity |-> "LOW"] ],
          severity_levels |->
            [ INFO     |-> [score |-> 1, priority |-> "P4", response_time |-> "None"],
              LOW      |-> [score |-> 2, priority |-> "P3", response_time |-> "24 hours"],
              MEDIUM   |-> [score |-> 3, priority |-> "P2", response_time |-> "4 hours"],
              HIGH     |-> [score |-> 4, priority |-> "P1", response_time |-> "1 hour"],
              CRITICAL |-> [score |-> 5, priority |-> "P0", response_time |-> "Immediate"] ],
          kill_chain_mapping |->
            << [phase |-> "Reconnaissance",
                info |-> [phase_number |-> 1,
                          related_tactics |-> <<"Reconnaissance", "Discovery">>]],
               [phase |-> "Exploitation",
                info |-> [phase_number |-> 4,
                          related_tactics |-> <<"Initial Access", "Credential Access">>]] >>,
          attack_indicators |->
            [ BRUTE_FORCE |-> [iocs |-> <<"Multiple failed logins">>] ] ] ]

\* valid JSON that lists one attack class only and no severity table
PartialMatrix ==
    [ status |-> "ok",
      data |->
        [ attack_mappings |->
            [ BRUTE_FORCE |-> [tactics |-> <<"Credential Access">>,
                               techniques |-> <<>>, severity |-> "HIGH"] ] ] ]

MissingFile == [status |-> "missing", data |-> << >>]
MalformedFile == [status |-> "malformed", data |-> << >>]

MatrixFiles == {FullMatrix, PartialMatrix, MissingFile, MalformedFile}

\* attack_type strings handed to map_attack: a known class, the same class in
\* lower case, and a class no table lists
MapTypeInputs == {"BRUTE_FORCE", "brute_force", "Sql_Injection"}

\* confidences handed to map_attack: none, 0.94746
MapConfidenceInputs == {NoneNum, 94746}

\* what predict_unsupervised returns: (None, None) when the detector is
\* unavailable or failed, else the flag and the decision-function value
UnsupervisedVerdicts ==
    { [is_anomaly |-> None,    score |-> NoneNum],
      [is_anomaly |-> "True",  score |-> -200000],
      [is_anomaly |-> "False", score |-> 30000] }

\* what predict_supervised returns: (None, None) or the label and confidence
SupervisedVerdicts ==
    { [attack_type |-> None,          confidence |-> NoneNum],
      [attack_type |-> "NORMAL",      confidence |-> 90000],
      [attack_type |-> "BRUTE_FORCE", confidence |-> 95000],
      [attack_type |-> "BRUTE_FORCE", confidence |-> 70000],
      [attack_type |-> "PORT_SCAN",   confidence |-> 94746] }

\* events handed to PALADINEnsemble.predict; the last has no timestamp
PredictLogs ==
    { [src_ip |-> "10.0.0.5", service |-> "SSH", destination_port |-> 2222,
       timestamp |-> [local |-> 3601, suffix |-> "Z"]],
      [source_ip |-> "192.168.66.6"] }

\* Isolation Forest scores, Random Forest classes and confidences handed to
\* MITREEnhancedPredictor.predict
AnomalyScoreInputs == {-60000, -15000, -10000}
ClassProbabilityInputs ==
    { <<95000, 5000>>, <<70000, 30000>>, <<50000, 50000>>, <<10000, 90000>> }

----------------------------------------------------------------------------
(* The state machine *)

\* the callers of the shared analyzer get_lstm_analyzer() returns
Threads == {"T1", "T2"}

\* a caller outside process_attack
IdleThread ==
    [ pc          |-> "idle",
      log_data    |-> << >>,
      attack_type |-> None,
      timestamp   |-> [local |-> 0, suffix |-> None],
      detached    |-> FALSE,
      sequence    |-> NewAttackSequence(None) ]

\* no get_top_attackers call in progress
NoReport ==
    [ pc        |-> "idle",
      used      |-> 0,
      remaining |-> {},
      attackers |-> <<>>,
      outcome   |-> "init",
      reports   |-> 0 ]

\* no generate_campaign_report call made yet
NoCampaign ==
    [ outcome                  |-> "init",
      timestamp                |-> 0,
      total_active_attackers   |-> 0,
      top_attackers            |-> <<>>,
      attack_patterns_detected |-> <<>>,
      recommendations          |-> <<>> ]

\* smtp.py start_server: the server waits in accept(), no handler runs
NoConnection ==
    [ pc          |-> "accept",
      client      |-> "none",
      inbound     |-> <<>>,
      sent        |-> 0,
      mail_from   |-> None,
      mail_to     |-> <<>>,
      email_body  |-> <<>>,
      replies     |-> <<>>,
      logged      |-> <<>>,
      eof_reads   |-> 0,
      connections |-> 0 ]

NoCall == [log_data |-> <<>>, attack_type |-> None,
           timestamp |-> [local |-> 0, suffix |-> None]]

Init ==
    /\ active_sequences = << >>
    /\ state_file = NoStateFile
    /\ now = 3602
    /\ analysis = NoAnalysis("init")
    /\ call = NoCall
    /\ calls = 0
    /\ mitre_mapper = [loaded |-> FALSE, attack_mappings |-> << >>,
                       severity_levels |-> << >>]
    /\ attack_mapper = NoAttackMapper("none")
    /\ map_calls = <<>>
    /\ attack_history = <<>>
    /\ prediction = [outcome |-> "init"]
    /\ enriched = [outcome |-> "init"]
    /\ verdicts = [outcome |-> "init"]
    /\ threads = [t \in Threads |-> IdleThread]
    /\ returned = [ip \in Sources |-> 0]
    /\ report = NoReport
    /\ campaign = NoCampaign
    /\ smtp = NoConnection

\* the wall clock advances
Tick ==
    /\ \E t \in ClockTimes : t > now /\ now' = t
    /\ UNCHANGED <<storeVars, calls, mapperVars, fusionVars, threadVars, campaign, smtp>>

\* one call of LSTMSequenceAnalyzer.process_attack
ProcessAttack ==
    /\ calls < MaxCalls
    /\ \E log_data \in LogInputs, attack_type \in AttackTypeInputs,
          timestamp \in TimestampInputs :
          LET r == process_attack(active_sequences, state_file,
                                  log_data, attack_type, timestamp, now)
          IN  /\ active_sequences' = r.sequences
              /\ state_file' = r.file
              /\ analysis' = r.result
              /\ call' = [log_data |-> log_data, attack_type |-> attack_type,
                          timestamp |-> timestamp]
    /\ calls' = calls + 1
    /\ UNCHANGED <<now, mapperVars, fusionVars, threadVars, campaign, smtp>>

\* the consumer process is started again: a fresh LSTMSequenceAnalyzer
\* (get_lstm_analyzer in a new process) starts empty and runs _load_state
Restart ==
    /\ active_sequences' = load_state(state_file, << >>)
    /\ UNCHANGED <<state_file, analysis, call, calls, now, mapperVars, fusionVars, threadVars, campaign, smtp>>

\* a process_attack call during which the process is killed inside
\* _save_state, after open(..., 'wb') truncated the file and before
\* pickle.dump completed; the consumer is then started again
CrashInSave ==
    /\ calls < MaxCalls
    /\ \E log_data \in LogInputs, attack_type \in AttackTypeInputs \ {"NORMAL"},
          timestamp \in TimestampInputs :
          /\ IsIsoFormat(ReplaceZ(timestamp))
          /\ call' = [log_data |-> log_data, attack_type |-> attack_type,
                      timestamp |-> timestamp]
    /\ state_file' = TruncatedStateFile
    /\ active_sequences' = load_state(TruncatedStateFile, << >>)
    /\ analysis' = NoAnalysis("killed")
    /\ calls' = calls + 1
    /\ UNCHANGED <<now, mapperVars, fusionVars, threadVars, campaign, smtp>>

\* the AttackSequence object the local variable `sequence` of thread t
\* refers to: the one the store holds, or one the store no longer holds
SequenceOf(t) ==
    IF threads[t].detached THEN threads[t].sequence
    ELSE active_sequences[source_ip_of(threads[t].log_data)]

\* the store entry of source_ip is replaced or deleted: the callers that
\* hold the old object keep it, detached from the store
Detach(source_ip, by) ==
    [t \in Threads |->
        IF /\ t # by
           /\ threads[t].pc \in {"append", "analyze"}
           /\ ~threads[t].detached
           /\ source_ip_of(threads[t].log_data) = source_ip
        THEN [threads[t] EXCEPT !.detached = TRUE,
                                !.sequence = active_sequences[source_ip]]
        ELSE threads[t]]

\* a caller enters process_attack with a non-benign event (lines 259-266)
ThreadCall(t) ==
    /\ threads[t].pc = "idle"
    /\ calls < MaxThreadCalls
    /\ \E log_data \in LogInputs, attack_type \in ThreadAttackTypes,
          timestamp \in ThreadTimestamps :
          threads' = [threads EXCEPT ![t] =
                         [IdleThread EXCEPT !.pc = "check",
                                            !.log_data = log_data,
                                            !.attack_type = attack_type,
                                            !.timestamp = timestamp]]
    /\ calls' = calls + 1
    /\ UNCHANGED <<now, storeVars, mapperVars, fusionVars, returned, report, campaign, smtp>>

\* line 269: if source_ip not in self.active_sequences
ThreadCheck(t) ==
    /\ threads[t].pc = "check"
    /\ threads' = [threads EXCEPT ![t].pc =
                      IF source_ip_of(threads[t].log_data) \in DOMAIN active_sequences
                      THEN "fetch" ELSE "create"]
    /\ UNCHANGED <<calls, now, storeVars, mapperVars, fusionVars, returned, report, campaign, smtp>>

\* lines 270-274: self.active_sequences[source_ip] = AttackSequence(...)
ThreadCreate(t) ==
    /\ threads[t].pc = "create"
    /\ LET source_ip == source_ip_of(threads[t].log_data)
           others    == IF source_ip \in DOMAIN active_sequences
                        THEN Detach(source_ip, t) ELSE threads
       IN  /\ active_sequences' =
                 [ip \in DOMAIN active_sequences \cup {source_ip} |->
                     IF ip = source_ip THEN NewAttackSequence(source_ip)
                     ELSE active_sequences[ip]]
           /\ threads' = [others EXCEPT ![t].pc = "fetch"]
    /\ UNCHANGED <<calls, now, state_file, analysis, call, mapperVars,
                   fusionVars, returned, report, campaign, smtp>>

\* line 276 and add_attack lines 49-59: the object is fetched from the
\* store, the timestamp parsed, last_seen and total_attacks updated
ThreadStamp(t) ==
    /\ threads[t].pc = "fetch"
    /\ LET source_ip == source_ip_of(threads[t].log_data)
       IN  IF source_ip \notin DOMAIN active_sequences
           THEN \* KeyError at line 276
                /\ threads' = [threads EXCEPT ![t] = IdleThread]
                /\ analysis' = NoAnalysis("raised")
                /\ UNCHANGED active_sequences
           ELSE /\ active_sequences' =
                      [active_sequences EXCEPT ![source_ip] =
                          [@ EXCEPT !.last_seen = current_time(threads[t].timestamp),
                                    !.total_attacks = @ + 1]]
                /\ threads' = [threads EXCEPT ![t].pc = "append"]
                /\ UNCHANGED analysis
    /\ UNCHANGED <<calls, now, state_file, call, mapperVars, fusionVars,
                   returned, report, campaign, smtp>>

\* add_attack lines 61-68 on the object the caller holds: the record is
\* appended, the type counted, the window cleaned
ThreadAppend(t) ==
    /\ threads[t].pc = "append"
    /\ LET source_ip == source_ip_of(threads[t].log_data)
           seq       == SequenceOf(t)
           appended  == clean_old_attacks(
               [seq EXCEPT
                  !.attacks            = DequeAppend(@, threads[t].attack_type),
                  !.timestamps         = DequeAppend(@, current_time(threads[t].timestamp)),
                  !.services           = DequeAppend(@, service_of(threads[t].log_data)),
                  !.ports              = DequeAppend(@, port_of(threads[t].log_data)),
                  !.attack_types_count = Increment(@, threads[t].attack_type)])
       IN  IF threads[t].detached
           THEN /\ threads' = [threads EXCEPT ![t].pc = "analyze",
                                              ![t].sequence = appended]
                /\ UNCHANGED active_sequences
           ELSE /\ threads' = [threads EXCEPT ![t].pc = "analyze"]
                /\ active_sequences' =
                      [active_sequences EXCEPT ![source_ip] = appended]
    /\ UNCHANGED <<calls, now, state_file, analysis, call, mapperVars,
                   fusionVars, returned, report, campaign, smtp>>

\* lines 279-286: the analysis of the object, the sweep and the save; the
\* call returns
ThreadReturn(t) ==
    /\ threads[t].pc = "analyze"
    /\ LET source_ip == source_ip_of(threads[t].log_data)
           swept     == cleanup_old_sequences(active_sequences, now)
           removed   == DOMAIN active_sequences \ DOMAIN swept
           kept      == [u \in Threads |->
                           IF /\ u # t
                              /\ threads[u].pc \in {"append", "analyze"}
                              /\ ~threads[u].detached
                              /\ source_ip_of(threads[u].log_data) \in removed
                           THEN [threads[u] EXCEPT
                                   !.detached = TRUE,
                                   !.sequence = active_sequences[
                                                  source_ip_of(threads[u].log_data)]]
                           ELSE threads[u]]
       IN  /\ analysis' = analyze_sequence(SequenceOf(t))
           /\ active_sequences' = swept
           /\ state_file' = save_state(swept)
           /\ threads' = [kept EXCEPT ![t] = IdleThread]
           /\ call' = [log_data |-> threads[t].log_data,
                       attack_type |-> threads[t].attack_type,
                       timestamp |-> threads[t].timestamp]
           /\ returned' = [returned EXCEPT ![source_ip] = @ + 1]
    /\ UNCHANGED <<calls, now, mapperVars, fusionVars, report, campaign, smtp>>

\* get_top_attackers line 453: the iteration over
\* self.active_sequences.items() starts
ReportBegin ==
    /\ report.pc = "idle"
    /\ report.reports < MaxReports
    /\ report' = [ pc        |-> "iterating",
                   used      |-> Cardinality(DOMAIN active_sequences),
                   remaining |-> DOMAIN active_sequences,
                   attackers |-> <<>>,
                   outcome   |-> "running",
                   reports   |-> report.reports + 1 ]
    /\ UNCHANGED <<calls, now, storeVars, mapperVars, fusionVars, threads, returned, campaign, smtp>>

\* one round of the loop of lines 453-456: the iterator raises RuntimeError
\* when the dictionary changed size, else the statistics and the threat
\* score of the next sequence are taken; after the last one the list is
\* sorted and returned (lines 459-461)
ReportNext ==
    /\ report.pc = "iterating"
    /\ LET present == report.remaining \cap DOMAIN active_sequences
       IN  IF Cardinality(DOMAIN active_sequences) # report.used
           THEN report' = [report EXCEPT !.pc = "idle", !.outcome = "raised",
                                         !.remaining = {}]
           ELSE IF present = {}
           THEN report' = [report EXCEPT !.pc = "idle", !.outcome = "returned",
                                         !.remaining = {}]
           ELSE LET ip  == CHOOSE x \in present : TRUE
                    seq == active_sequences[ip]
                IN  report' = [report EXCEPT
                       !.remaining = present \ {ip},
                       !.attackers = Append(@,
                           [ source_ip       |-> ip,
                             total_attacks   |-> seq.total_attacks,
                             sequence_length |-> Len(seq.attacks),
                             last_seen       |-> seq.last_seen,
                             timestamps      |-> seq.timestamps,
                             threat_score    |-> calculate_threat_score(seq) ])]
    /\ UNCHANGED <<calls, now, storeVars, mapperVars, fusionVars, threads, returned, campaign, smtp>>

\* PALADINEnsemble.load_mitre: MITREMapper() reads the matrix file
NewMitreMapper ==
    /\ ~mitre_mapper.loaded
    /\ \E file \in MatrixFiles : mitre_mapper' = LoadMitreMapper(file)
    /\ UNCHANGED <<storeVars, now, calls, attack_mapper, map_calls, fusionVars, threadVars, campaign, smtp>>

\* MITREAttackMapper(path) reads the matrix file
NewAttackMapper ==
    /\ attack_mapper.state = "none"
    /\ \E file \in MatrixFiles : attack_mapper' = LoadAttackMapper(file)
    /\ UNCHANGED <<storeVars, now, calls, mitre_mapper, map_calls, fusionVars, threadVars, campaign, smtp>>

\* one call of MITREMapper.map_attack
MapAttack ==
    /\ mitre_mapper.loaded
    /\ calls < MaxMapCalls
    /\ \E attack_type \in MapTypeInputs, confidence \in MapConfidenceInputs :
          map_calls' = Append(map_calls,
              [ mapper      |-> "MITREMapper",
                attack_type |-> attack_type,
                confidence  |-> confidence,
                at          |-> now,
                result      |-> map_attack(mitre_mapper, attack_type, confidence) ])
    /\ calls' = calls + 1
    /\ UNCHANGED <<storeVars, now, mitre_mapper, attack_mapper, fusionVars, threadVars, campaign, smtp>>

\* map_attack that remembers an unknown class under the UNKNOWN_THREAT entry
AttackMapperMapAttackMemo ==
    /\ attack_mapper.state = "ready"
    /\ calls < MaxMapCalls
    /\ \E attack_type \in MapTypeInputs, confidence \in MapConfidenceInputs :
          /\ map_calls' = Append(map_calls,
                [ mapper      |-> "MITREAttackMapper",
                  attack_type |-> attack_type,
                  confidence  |-> confidence,
                  at          |-> now,
                  result      |-> attack_mapper_map_attack(attack_mapper, attack_type,
                                                           confidence, now) ])
          /\ attack_mapper' =
                IF /\ Upper(attack_type) \notin DOMAIN attack_mapper.attack_mappings
                   /\ "UNKNOWN_THREAT" \in DOMAIN attack_mapper.attack_mappings
                THEN [attack_mapper EXCEPT !.attack_mappings =
                        [k \in DOMAIN @ \cup {Upper(attack_type)} |->
                            IF k \in DOMAIN @ THEN @[k] ELSE @["UNKNOWN_THREAT"]]]
                ELSE attack_mapper
    /\ calls' = calls + 1
    /\ UNCHANGED <<storeVars, now, mitre_mapper, fusionVars, threadVars, campaign, smtp>>

\* one call of MITREAttackMapper.map_attack
AttackMapperMapAttack ==
    /\ attack_mapper.state = "ready"
    /\ calls < MaxMapCalls
    /\ \E attack_type \in MapTypeInputs, confidence \in MapConfidenceInputs :
          map_calls' = Append(map_calls,
              [ mapper      |-> "MITREAttackMapper",
                attack_type |-> attack_type,
                confidence  |-> confidence,
                at          |-> now,
                result      |-> attack_mapper_map_attack(attack_mapper, attack_type,
                                                         confidence, now) ])
    /\ calls' = calls + 1
    /\ UNCHANGED <<storeVars, now, mitre_mapper, attack_mapper, fusionVars, threadVars, campaign, smtp>>

\* one call of MITREEnhancedPredictor.predict
EnhancedPredict ==
    /\ attack_mapper.state = "ready"
    /\ calls < MaxPredictions
    /\ \E anomaly_score \in AnomalyScoreInputs,
          class_probabilities \in ClassProbabilityInputs :
          LET r == enhanced_predict(attack_mapper, attack_history, anomaly_score,
                                    class_probabilities, now)
          IN  /\ attack_history' = r.history
              /\ prediction' = r.result
    /\ calls' = calls + 1
    /\ UNCHANGED <<storeVars, now, mapperVars, enriched, verdicts, threadVars, campaign, smtp>>

\* one call of PALADINEnsemble.predict (process_log of the consumer)
Predict ==
    /\ mitre_mapper.loaded
    /\ calls < MaxPredictions
    /\ \E log_data \in PredictLogs, unsupervised \in UnsupervisedVerdicts,
          supervised \in SupervisedVerdicts :
          LET r == predict(mitre_mapper, active_sequences, state_file,
                           log_data, unsupervised, supervised, now)
          IN  /\ active_sequences' = r.sequences
              /\ state_file' = r.file
              /\ analysis' = IF r.called THEN r.result ELSE analysis
              /\ call' = IF r.called THEN r.call ELSE call
              /\ enriched' = r.log_data
              /\ verdicts' = r.verdicts
    /\ calls' = calls + 1
    /\ UNCHANGED <<now, mapperVars, attack_history, prediction, threadVars, campaign, smtp>>

\* _analyze_sequence on a sequence of the store, as generate_campaign_report
\* line 477 calls it
AnalyzeSequence ==
    /\ \E ip \in DOMAIN active_sequences :
          analysis' = analyze_sequence(active_sequences[ip])
    /\ UNCHANGED <<calls, now, active_sequences, state_file, call, mapperVars,
                   fusionVars, threadVars, campaign, smtp>>

\* LSTMSequenceAnalyzer.generate_campaign_report
CampaignReport ==
    /\ campaign' = generate_campaign_report(active_sequences, now)
    /\ UNCHANGED <<calls, now, storeVars, mapperVars, fusionVars, threadVars,
                   smtp>>

\* start_server lines 103-106: accept() returns a connection and
\* handle_connection starts (lines 41-46): the greeting is written
SmtpAccept ==
    /\ smtp.pc = "accept"
    /\ smtp.connections < MaxConnections
    /\ smtp' = [NoConnection EXCEPT
                   !.pc          = "command",
                   !.client      = "open",
                   !.replies     = <<"220">>,
                   !.logged      = smtp.logged,
                   !.connections = smtp.connections + 1]
    /\ UNCHANGED <<calls, now, storeVars, mapperVars, fusionVars, threadVars,
                   campaign>>

\* the client writes one line
ClientSend ==
    /\ smtp.pc \in {"command", "data"}
    /\ smtp.client = "open"
    /\ smtp.sent < MaxLines
    /\ \E line \in SmtpLines :
          smtp' = [smtp EXCEPT !.inbound = Append(@, line), !.sent = @ + 1]
    /\ UNCHANGED <<calls, now, storeVars, mapperVars, fusionVars, threadVars,
                   campaign>>

\* the client closes the connection: what it wrote stays readable and the
\* stream ends after it
ClientClose ==
    /\ smtp.pc \in {"command", "data"}
    /\ smtp.client = "open"
    /\ smtp' = [smtp EXCEPT !.client = "closed"]
    /\ UNCHANGED <<calls, now, storeVars, mapperVars, fusionVars, threadVars,
                   campaign>>

\* the client aborts the connection: the next read raises ConnectionResetError
ClientReset ==
    /\ smtp.pc \in {"command", "data"}
    /\ smtp.client = "open"
    /\ smtp' = [smtp EXCEPT !.client = "reset", !.inbound = <<>>]
    /\ UNCHANGED <<calls, now, storeVars, mapperVars, fusionVars, threadVars,
                   campaign>>

\* handle_connection returns and start_server goes back to accept()
Returned(s) == [s EXCEPT !.pc = "accept", !.client = "none", !.inbound = <<>>]

\* one round of the command loop, lines 48-93: readline returns the next
\* line, or '' at the end of the stream, or raises after a reset
ReadCommand ==
    /\ smtp.pc = "command"
    /\ smtp.inbound # <<>> \/ smtp.client # "open"
    /\ smtp' =
         IF smtp.inbound = <<>>
         THEN IF smtp.client = "closed"
              THEN Returned([smtp EXCEPT !.eof_reads = @ + 1])
              ELSE Returned(smtp)
         ELSE LET line == Head(smtp.inbound)
                  rest == [smtp EXCEPT !.inbound = Tail(@)]
              IN  IF line.command = None THEN Returned(rest)
                  ELSE IF line.command = "QUIT"
                  THEN Returned([rest EXCEPT !.replies = Append(@, "221")])
                  ELSE IF line.command = "MAIL"
                  THEN [rest EXCEPT !.mail_from = line.argument,
                                    !.replies   = Append(@, "250")]
                  ELSE IF line.command = "RCPT"
                  THEN [rest EXCEPT !.mail_to = Append(@, line.argument),
                                    !.replies = Append(@, "250")]
                  ELSE IF line.command = "DATA"
                  THEN [rest EXCEPT !.pc         = "data",
                                    !.email_body = <<>>,
                                    !.replies    = Append(@, "354")]
                  ELSE IF line.command \in {"HELO", "EHLO", "VRFY"}
                  THEN [rest EXCEPT !.replies = Append(@, "250")]
                  ELSE [rest EXCEPT !.replies = Append(@, "500")]
    /\ UNCHANGED <<calls, now, storeVars, mapperVars, fusionVars, threadVars,
                   campaign>>

\* one round of the body loop, lines 71-75, and lines 77-83 after it: the
\* line read is added to the body and the loop ends on the line '.'; at the
\* end of the stream readline returns '', which is added and is not '.'
ReadBody ==
    /\ smtp.pc = "data"
    /\ smtp.inbound # <<>> \/ smtp.client # "open"
    /\ smtp.eof_reads < MaxEofReads
    /\ smtp' =
         IF smtp.inbound = <<>>
         THEN IF smtp.client = "closed"
              THEN [smtp EXCEPT !.eof_reads = @ + 1]
              ELSE Returned(smtp)
         ELSE LET line == Head(smtp.inbound)
                  rest == [smtp EXCEPT !.inbound    = Tail(@),
                                       !.email_body = Append(@, line.text)]
              IN  IF line.text = "."
                  THEN [rest EXCEPT
                          !.pc      = "command",
                          !.logged  = Append(@, [from |-> rest.mail_from,
                                                 to   |-> rest.mail_to,
                                                 body |-> rest.email_body]),
                          !.replies = Append(@, "250")]
                  ELSE rest
    /\ UNCHANGED <<calls, now, storeVars, mapperVars, fusionVars, threadVars,
                   campaign>>

Next ==
    \/ Tick
    \/ ProcessAttack
    \/ Restart
    \/ CrashInSave
    \/ \E t \in Threads : ThreadCall(t)
    \/ \E t \in Threads : ThreadCheck(t)
    \/ \E t \in Threads : ThreadCreate(t)
    \/ \E t \in Threads : ThreadStamp(t)
    \/ \E t \in Threads : ThreadAppend(t)
    \/ \E t \in Threads : ThreadReturn(t)
    \/ ReportBegin
    \/ ReportNext
    \/ AnalyzeSequence
    \/ CampaignReport
    \/ SmtpAccept
    \/ ClientSend
    \/ ClientClose
    \/ ClientReset
    \/ ReadCommand
    \/ ReadBody
    \/ NewMitreMapper
    \/ NewAttackMapper
    \/ MapAttack
    \/ AttackMapperMapAttack
    \/ EnhancedPredict
    \/ Predict

Spec == Init /\ [][Next]_vars

\* the sequence store driven through process_attack
NextStore == Tick \/ ProcessAttack
SpecStore == Init /\ [][NextStore]_vars

\* the sequence store with its state file, across restarts of the consumer
NextPersist == Tick \/ ProcessAttack \/ Restart \/ CrashInSave
SpecPersist == Init /\ [][NextPersist]_vars

\* the shared analyzer under concurrent callers and a reporting read
NextThreads ==
    \/ \E t \in Threads : ThreadCall(t)
    \/ \E t \in Threads : ThreadCheck(t)
    \/ \E t \in Threads : ThreadCreate(t)
    \/ \E t \in Threads : ThreadStamp(t)
    \/ \E t \in Threads : ThreadAppend(t)
    \/ \E t \in Threads : ThreadReturn(t)
    \/ ReportBegin
    \/ ReportNext
SpecThreads == Init /\ [][NextThreads]_vars

\* the two mappers driven through map_attack
NextMapper == Tick \/ NewMitreMapper \/ NewAttackMapper \/ MapAttack
              \/ AttackMapperMapAttack
SpecMapper == Init /\ [][NextMapper]_vars

\* the two fusion steps driven through predict
NextFusion == Tick \/ NewMitreMapper \/ NewAttackMapper \/ EnhancedPredict
              \/ Predict
SpecFusion == Init /\ [][NextFusion]_vars

\* the SMTP emulator and one client at a time
NextSmtp == SmtpAccept \/ ClientSend \/ ClientClose \/ ClientReset
            \/ ReadCommand \/ ReadBody
SpecSmtp == Init /\ [][NextSmtp]_vars

\* the analysis functions applied to stores drawn from the input sets: a
\* running analyzer whose store holds up to MaxAttackers sequences
InitAnalysis ==
    /\ \E n \in 1..MaxAttackers, history \in HistoryInputs,
          step \in TimeStepInputs :
          active_sequences = RecordedStore(n, history, step)
    /\ state_file = NoStateFile
    /\ now = 3602
    /\ analysis = NoAnalysis("init")
    /\ call = NoCall
    /\ calls = 0
    /\ mitre_mapper = [loaded |-> FALSE, attack_mappings |-> << >>,
                       severity_levels |-> << >>]
    /\ attack_mapper = NoAttackMapper("none")
    /\ map_calls = <<>>
    /\ attack_history = <<>>
    /\ prediction = [outcome |-> "init"]
    /\ enriched = [outcome |-> "init"]
    /\ verdicts = [outcome |-> "init"]
    /\ threads = [t \in Threads |-> IdleThread]
    /\ returned = [ip \in Sources |-> 0]
    /\ report = NoReport
    /\ campaign = NoCampaign
    /\ smtp = NoConnection

NextAnalysis == AnalyzeSequence \/ CampaignReport
SpecAnalysis == InitAnalysis /\ [][NextAnalysis]_vars

----------------------------------------------------------------------------
(* Properties of the sequence store, checked under SpecStore *)

HighOrAbove == {"HIGH", "CRITICAL"}

\* C1: for every source, after any process_attack/add_attack call,
\* get_statistics().sequence_length is the number of records retained (the
\* four parallel deques hold that many entries each), total_attacks is at
\* least sequence_length, and the total_attacks of a sequence never decreases
\* from one step to the next.
C1_LengthAndTotal ==
    [][ /\ \A ip \in DOMAIN active_sequences' :
             LET seq == active_sequences'[ip]
             IN  /\ get_statistics(seq).sequence_length = Len(seq.timestamps)
                 /\ Len(seq.attacks) = Len(seq.timestamps)
                 /\ Len(seq.services) = Len(seq.timestamps)
                 /\ Len(seq.ports) = Len(seq.timestamps)
                 /\ seq.total_attacks >= get_statistics(seq).sequence_length
        /\ \A ip \in DOMAIN active_sequences \cap DOMAIN active_sequences' :
             active_sequences'[ip].total_attacks >= active_sequences[ip].total_attacks
      ]_vars

\* a sequence that lost records to eviction or overflow and still holds two
C1_Witness ==
    \E ip \in DOMAIN active_sequences :
        /\ Len(active_sequences[ip].attacks) >= 2
        /\ active_sequences[ip].total_attacks > Len(active_sequences[ip].attacks)

\* C2: eviction invariant - every retained record of every sequence has a
\* timestamp not older than last_seen - time_window, whatever the order in
\* which the event timestamps arrived.
C2_EvictionInvariant ==
    \A ip \in DOMAIN active_sequences :
        \A i \in 1..Len(active_sequences[ip].timestamps) :
            active_sequences[ip].timestamps[i]
                >= active_sequences[ip].last_seen - time_window

\* C3: scenario 1 - when the first two events of a source are PORT_SCAN at t0
\* and BRUTE_FORCE at t0 + 1 s, the analysis returned for the second event
\* lists reconnaissance_to_attack and has threat_level HIGH or CRITICAL.
C3_ScenarioOne ==
    ( /\ analysis.outcome = "returned"
      /\ analysis.source_ip \in DOMAIN active_sequences
      /\ active_sequences[analysis.source_ip].total_attacks = 2
      /\ active_sequences[analysis.source_ip].attacks = <<"PORT_SCAN", "BRUTE_FORCE">>
      /\ active_sequences[analysis.source_ip].timestamps[2]
            = active_sequences[analysis.source_ip].timestamps[1] + 1 )
    => /\ \E i \in 1..Len(analysis.patterns_detected) :
             analysis.patterns_detected[i].name = "reconnaissance_to_attack"
       /\ analysis.threat_level \in HighOrAbove

\* C10: sweep - on every process_attack call that reaches the sweep, a
\* sequence whose last_seen is older than now - 2 * time_window is removed and
\* absent from the active attackers, and every other sequence is still
\* present, the ones the call did not touch unchanged.
C10_Sweep ==
    [][ (calls' = calls + 1 /\ analysis'.outcome = "returned") =>
          LET src    == analysis'.source_ip
              cutoff == now - 2 * time_window
              stale(last_seen) == last_seen # NoneNum /\ last_seen < cutoff
          IN  /\ \A ip \in DOMAIN active_sequences \ {src} :
                    IF stale(active_sequences[ip].last_seen)
                    THEN /\ ip \notin DOMAIN active_sequences'
                         /\ ip \notin DOMAIN get_active_attackers(active_sequences')
                    ELSE /\ ip \in DOMAIN active_sequences'
                         /\ active_sequences'[ip] = active_sequences[ip]
              /\ IF stale(current_time(call'.timestamp))
                 THEN /\ src \notin DOMAIN active_sequences'
                      /\ src \notin DOMAIN get_active_attackers(active_sequences')
                 ELSE /\ src \in DOMAIN active_sequences'
                      /\ active_sequences'[src].last_seen
                            = current_time(call'.timestamp)
      ]_vars

\* the sweep has just removed the sequence of the processed source and kept
\* the sequence of another source
C10_Witness ==
    /\ analysis.outcome = "returned"
    /\ analysis.source_ip \notin DOMAIN active_sequences
    /\ \E ip \in DOMAIN active_sequences :
          active_sequences[ip].last_seen >= now - 2 * time_window

----------------------------------------------------------------------------
(* Properties of the fusion steps, checked under SpecFusion *)

Absent(block) == block.outcome # "returned"

\* the label and the confidence the Random Forest gave the last
\* MITREEnhancedPredictor.predict call
PredictedLabel == classes_[ArgMax(prediction.class_probabilities)]
PredictedConfidence == prediction.class_probabilities[ArgMax(prediction.class_probabilities)]

C5_FusionRuleThree ==
    /\ ( /\ prediction.outcome = "returned"
         /\ ~prediction.is_anomaly
         /\ PredictedLabel # "NORMAL"
         /\ PredictedConfidence <= confidence_threshold )
       => /\ prediction.prediction = "NORMAL"
          /\ prediction.detection_method = "BASELINE"
          /\ Absent(prediction.mitre_mapping)
    /\ ( /\ verdicts.outcome = "returned"
         /\ verdicts.unsupervised.is_anomaly # "True"
         /\ verdicts.supervised.attack_type \notin {None, "NORMAL"}
         /\ verdicts.supervised.confidence <= confidence_threshold )
       => /\ verdicts.final_type = "NORMAL"
          /\ Absent(enriched.mitre)
          /\ Absent(enriched.lstm)

\* C6: with both verdicts missing the decision is NORMAL with confidence 0,
\* and the event gets no MITRE mapping and no sequence analysis.
C6_BothUnavailable ==
    ( /\ verdicts.outcome = "returned"
      /\ verdicts.unsupervised.is_anomaly = None
      /\ verdicts.supervised.attack_type = None )
    => /\ verdicts.final_type = "NORMAL"
       /\ verdicts.final_confidence = 0
       /\ enriched.ai_confidence = 0
       /\ Absent(enriched.mitre)
       /\ Absent(enriched.lstm)

\* the severity base score a mapper's tables give a mapping
BaseScore(severity_levels, mapping) ==
    Get(Get(severity_levels, mapping.severity, << >>), "score", 3)

\* C9: every mapping attached to an event or a prediction has
\* risk_score = round(base score * confidence, 2), within [0, 5].
C9_RiskScore ==
    /\ ~Absent(enriched) /\ ~Absent(enriched.mitre) =>
          /\ enriched.mitre.risk_score =
                Round2(BaseScore(mitre_mapper.severity_levels, enriched.mitre)
                       * verdicts.final_confidence)
          /\ enriched.mitre.risk_score >= 0
          /\ enriched.mitre.risk_score <= 5 * Unit
    /\ prediction.outcome = "returned" /\ ~Absent(prediction.mitre_mapping) =>
          /\ prediction.mitre_mapping.risk_score =
                Round2(BaseScore(attack_mapper.severity_levels, prediction.mitre_mapping)
                       * prediction.confidence)
          /\ prediction.mitre_mapping.risk_score >= 0
          /\ prediction.mitre_mapping.risk_score <= 5 * Unit

----------------------------------------------------------------------------
(* Properties of the mappers, checked under SpecMapper *)

MapperTables(name) ==
    IF name = "MITREMapper" THEN mitre_mapper.attack_mappings
    ELSE attack_mapper.attack_mappings

\* C7: no map_attack call raises; a type the tables do not list is mapped to
\* the UNKNOWN_THREAT entry.
C7_NeverRaises ==
    \A i \in 1..Len(map_calls) :
        /\ map_calls[i].result.outcome = "returned"
        /\ Upper(map_calls[i].attack_type) \notin DOMAIN MapperTables(map_calls[i].mapper)
              => map_calls[i].result.attack_type = "UNKNOWN_THREAT"

SameInput(a, b) ==
    /\ a.mapper = b.mapper
    /\ a.attack_type = b.attack_type
    /\ a.confidence = b.confidence

WithoutTimestamp(result) ==
    [k \in DOMAIN result \ {"timestamp"} |-> result[k]]

----------------------------------------------------------------------------
(* Properties of the analysis of one sequence, checked under SpecStore *)

\* the sequence the last analysis was made of, while the store still holds it
Analysed ==
    /\ analysis.outcome = "returned"
    /\ analysis.source_ip \in DOMAIN active_sequences

History == active_sequences[analysis.source_ip].attacks

Listed(name) ==
    Cardinality({i \in 1..Len(analysis.patterns_detected) :
                    analysis.patterns_detected[i].name = name})

EndsWith(history, pattern) ==
    /\ Len(history) >= Len(pattern)
    /\ SubSeq(history, Len(history) - Len(pattern) + 1, Len(history)) = pattern

\* C12: for a history of at least two entries every pattern of the library
\* is listed at most once in patterns_detected, and a pattern whose chain is
\* the end of the history is listed exactly once.
C12_ListedOnce ==
    (Analysed /\ Len(History) >= 2) =>
        \A k \in 1..Len(attack_patterns) :
            /\ Listed(attack_patterns[k].name) <= 1
            /\ EndsWith(History, attack_patterns[k].pattern)
                  => Listed(attack_patterns[k].name) = 1

\* the history [PORT_SCAN, BRUTE_FORCE] was analysed and its chain listed
C12_Witness ==
    /\ Analysed
    /\ History = <<"PORT_SCAN", "BRUTE_FORCE">>
    /\ Listed("reconnaissance_to_attack") = 1

\* 0.3 * min(L/10, 1) + 0.2 * c/L as a fraction, for L >= 1
LengthAndCriticality(seq) ==
    LET L == Len(seq.attacks)
        c == Cardinality({i \in 1..L : seq.attacks[i] \in critical_attacks})
    IN  [num |-> 18 * Min(L, 10) + 120 * c, den |-> 600 * L]

SameFraction(a, b) == a.num * b.den = b.num * a.den

\* C13: the analysis of a brand-new source's single record has a
\* behavioral_score made of the length and the criticality signals only, and
\* at most 0.5 when the attack type is not critical.
C13_SingleRecordScore ==
    (Analysed /\ active_sequences[analysis.source_ip].total_attacks = 1
              /\ Len(History) = 1) =>
        /\ SameFraction(analysis.behavioral_score,
                        LengthAndCriticality(active_sequences[analysis.source_ip]))
        /\ History[1] \notin critical_attacks
              => 2 * analysis.behavioral_score.num <= analysis.behavioral_score.den

----------------------------------------------------------------------------
(* Construction of the mappers, checked under SpecMapper *)

UnusableFiles == {MissingFile, MalformedFile}

MinimalTable ==
    {"NORMAL", "UNKNOWN_THREAT", "BRUTE_FORCE", "DOS", "DDOS", "PORT_SCAN"}

\* C14: constructing a mapper from a missing or malformed knowledge file
\* never raises; the mapper then holds an embedded table with at least
\* NORMAL, UNKNOWN_THREAT and the four common attack classes, and every
\* later map_attack call on it succeeds.
C14_ConstructionNeverFatal ==
    /\ attack_mapper.state # "failed"
    /\ \A file \in UnusableFiles :
          MinimalTable \subseteq DOMAIN LoadMitreMapper(file).attack_mappings
    /\ \A i \in 1..Len(map_calls) :
          MinimalTable \subseteq DOMAIN MapperTables(map_calls[i].mapper)
              => map_calls[i].result.outcome = "returned"

----------------------------------------------------------------------------
(* Failure semantics of the store, checked under SpecStore *)

\* C15: when the timestamp of a source's very first non-benign event cannot
\* be parsed, the call does not fail: the record is stored under the current
\* time (sequence_length 1, total_attacks 1, last_seen = now) and an
\* analysis of the event is returned.
C15_TimestampFallback ==
    [][ LET src == source_ip_of(call'.log_data)
        IN  ( /\ calls' = calls + 1
              /\ call'.attack_type # "NORMAL"
              /\ ~IsIsoFormat(ReplaceZ(call'.timestamp))
              /\ src \notin DOMAIN active_sequences )
            => /\ analysis'.outcome = "returned"
               /\ analysis'.sequence_length = 1
               /\ src \in DOMAIN active_sequences'
               /\ Len(active_sequences'[src].attacks) = 1
               /\ active_sequences'[src].total_attacks = 1
               /\ active_sequences'[src].last_seen = now
      ]_vars

----------------------------------------------------------------------------
(* The sequence-analysis block of the enriched event, checked under        *)
(* SpecFusion                                                              *)

\* the source has a non-benign event on record
HasEarlierEvent(sequences, source_ip) ==
    /\ source_ip \in DOMAIN sequences
    /\ sequences[source_ip].total_attacks >= 1

\* C16: the event a predict call returns carries the block 'lstm' only when
\* its final classification is not NORMAL and its source already had an
\* earlier non-benign event; on a source's first non-benign event and on a
\* NORMAL event the block is absent.
C16_BlockOnlyAfterFirst ==
    [][ (enriched' # enriched /\ enriched'.outcome = "returned") =>
          ( ~Absent(enriched'.lstm) =>
              /\ enriched'.ai_attack_type # "NORMAL"
              /\ HasEarlierEvent(active_sequences,
                                 source_ip_of(enriched'.log_data)) )
      ]_vars

----------------------------------------------------------------------------
(* Where the sweep runs, checked under SpecStore *)

\* C20: stale-sequence removal is independent of the event path - a
\* process_attack call performs no sweep, so it removes no sequence from the
\* store (removal is left to a periodic sweep, which is the only step that
\* makes a sequence disappear).
C20_SweepOutsideRecord ==
    [][ calls' = calls + 1 =>
          \A ip \in DOMAIN active_sequences : ip \in DOMAIN active_sequences'
      ]_vars

----------------------------------------------------------------------------
(* Persistence of the store, checked under SpecPersist *)

\* the same retained records, total_attacks and last_seen
SameSequence(a, b) ==
    /\ a.source_ip = b.source_ip
    /\ a.attacks = b.attacks
    /\ a.timestamps = b.timestamps
    /\ a.services = b.services
    /\ a.ports = b.ports
    /\ a.total_attacks = b.total_attacks
    /\ a.last_seen = b.last_seen

Equivalent(loaded, sequences) ==
    /\ DOMAIN loaded = DOMAIN sequences
    /\ \A ip \in DOMAIN sequences : SameSequence(loaded[ip], sequences[ip])

C19_PersistedAfterEveryMutation ==
    [][ /\ (calls' = calls + 1 /\ analysis'.outcome = "returned")
              => load_state(state_file', << >>) = active_sequences'
        /\ (calls' = calls + 1 /\ analysis'.outcome = "killed")
              => \A ip \in DOMAIN active_sequences
                              \ {source_ip_of(call'.log_data)} :
                    ( /\ active_sequences[ip].total_attacks >= 1
                      /\ active_sequences[ip].last_seen >= now - 2 * time_window )
                    => /\ ip \in DOMAIN active_sequences'
                       /\ active_sequences'[ip] = active_sequences[ip]
      ]_vars

----------------------------------------------------------------------------
(* Concurrent callers, checked under SpecThreads *)

AllReturned == \A t \in Threads : threads[t].pc = "idle"

\* C17: with concurrent callers of process_attack no update is lost - once
\* every call has returned, the store holds the sequence of each source that
\* was called for, its total_attacks is the number of calls made for the
\* source and every one of these records is in its deque (the calls also
\* being the first ones of the source).
C17_NoLostUpdate ==
    AllReturned =>
        \A ip \in Sources :
            returned[ip] >= 1 =>
                /\ ip \in DOMAIN active_sequences
                /\ active_sequences[ip].total_attacks = returned[ip]
                /\ Len(active_sequences[ip].attacks) = Min(returned[ip], MaxLength)

\* C18: a reporting read interleaved with process_attack calls never fails
\* because the map changes underneath it, and never takes a half-applied
\* record: every sequence it reads has its last record appended, so that
\* last_seen is the time of the last retained record and a counted attack
\* has a record.
C18_SnapshotReads ==
    /\ report.outcome # "raised"
    /\ \A i \in 1..Len(report.attackers) :
          LET seen == report.attackers[i]
          IN  seen.total_attacks >= 1 =>
                 /\ Len(seen.timestamps) >= 1
                 /\ seen.last_seen = seen.timestamps[Len(seen.timestamps)]

----------------------------------------------------------------------------
(* Bounds of the score, checked under SpecStore *)

InUnitInterval(x) == x.num >= 0 /\ x.num <= x.den

\* C22: for every sequence of the store, each of the four signals - length,
\* diversity, rate, criticality - lies in [0,1] before weighting, and the
\* score _calculate_threat_score returns lies in [0,1].
C22_SignalsBounded ==
    \A ip \in DOMAIN active_sequences :
        LET seq == active_sequences[ip]
        IN  /\ InUnitInterval(length_score(seq))
            /\ InUnitInterval(diversity_score(seq))
            /\ InUnitInterval(rate_score(seq))
            /\ InUnitInterval(critical_score(seq))
            /\ InUnitInterval(calculate_threat_score(seq))

----------------------------------------------------------------------------
(* What a process_attack call leaves in the store, checked under SpecStore *)

\* C27: after process_attack returned for a non-NORMAL event with a parsable
\* timestamp, the store holds the sequence of the source and its newest
\* record is that event, however old the timestamp is against the wall
\* clock; so a source's second event inside its time window is analysed
\* with sequence_length >= 2.
C27_RecordedWhateverItsAge ==
    [][ (calls' = calls + 1 /\ analysis'.outcome = "returned") =>
          LET src == analysis'.source_ip
              t   == current_time(call'.timestamp)
          IN  /\ src \in DOMAIN active_sequences'
              /\ Len(active_sequences'[src].timestamps) >= 1
              /\ active_sequences'[src].timestamps[
                    Len(active_sequences'[src].timestamps)] = t
              /\ ( /\ src \in DOMAIN active_sequences
                    /\ Len(active_sequences[src].timestamps) >= 1
                    /\ active_sequences[src].last_seen <= t
                    /\ t - active_sequences[src].last_seen <= time_window )
                  => analysis'.sequence_length >= 2
      ]_vars

\* C28: when add_attack raises inside process_attack, the store is left as
\* it was before the call: no empty AttackSequence stays registered for an
\* unseen source and no existing sequence changes.
C28_FailedCallLeavesStore ==
    [][ (calls' = calls + 1 /\ analysis'.outcome = "raised")
          => active_sequences' = active_sequences
      ]_vars

\* the attack rate a sequence should report: sequence_length / max(duration, 1)
RateOf(length, duration) ==
    [num |-> length, den |-> IF duration > 1 THEN duration ELSE 1]

BanRecommendation == "Consider temporary IP ban - high attack rate"

\* C29: for a sequence with at least one retained record, get_statistics
\* reports last_seen as the time of the latest record and first_seen as the
\* time of the source's first record, duration_seconds as their difference
\* and attack_rate as sequence_length / max(duration, 1); when that rate
\* exceeds 0.1 the temporary-ban recommendation is emitted.
C29_StatisticsOfSequence ==
    (Analysed /\ Len(History) >= 1) =>
        LET seq   == active_sequences[analysis.source_ip]
            stats == analysis.statistics
            rate  == RateOf(Len(History), stats.last_seen - stats.first_seen)
        IN  /\ stats.last_seen = seq.last_seen
            /\ stats.first_seen # NoneNum
            /\ seq.total_attacks = Len(History)
                  => stats.first_seen = seq.timestamps[1]
            /\ stats.duration_seconds = stats.last_seen - stats.first_seen
            /\ SameFraction(stats.attack_rate, rate)
            /\ (Len(History) >= 2 /\ 10 * rate.num > rate.den)
                  => \E i \in 1..Len(analysis.recommendations) :
                        analysis.recommendations[i] = BanRecommendation

----------------------------------------------------------------------------
(* Properties of the analysis functions, checked under SpecAnalysis *)

CriticalPatternListed ==
    \E i \in 1..Len(analysis.patterns_detected) :
        analysis.patterns_detected[i].severity = "CRITICAL"

\* C21: for a sequence of at least two records the threat level is CRITICAL
\* when a matched pattern has severity CRITICAL, whatever the score; else
\* CRITICAL, HIGH or MEDIUM when the score is above 0.8, 0.6 or 0.4; else
\* HIGH from five records on, MEDIUM from three on, and LOW otherwise.
C21_ThreatLevel ==
    (Analysed /\ Len(History) >= 2) =>
        LET score == analysis.behavioral_score
            level == analysis.threat_level
        IN  /\ CriticalPatternListed => level = "CRITICAL"
            /\ (~CriticalPatternListed /\ ScoreAbove(score, 8))
                  => level = "CRITICAL"
            /\ (~CriticalPatternListed /\ ~ScoreAbove(score, 8)
                                       /\ ScoreAbove(score, 6))
                  => level = "HIGH"
            /\ (~CriticalPatternListed /\ ~ScoreAbove(score, 6)
                                       /\ ScoreAbove(score, 4))
                  => level = "MEDIUM"
            /\ (~CriticalPatternListed /\ ~ScoreAbove(score, 4)
                                       /\ Len(History) >= 5)
                  => level = "HIGH"
            /\ (~CriticalPatternListed /\ ~ScoreAbove(score, 4)
                                       /\ Len(History) \in {3, 4})
                  => level = "MEDIUM"
            /\ level = "LOW" <=> ( /\ ~CriticalPatternListed
                                   /\ ~ScoreAbove(score, 4)
                                   /\ Len(History) < 3 )

\* a sequence whose pattern is CRITICAL while its score is not above 0.8
C21_Witness ==
    /\ Analysed
    /\ Len(History) >= 2
    /\ CriticalPatternListed
    /\ ~ScoreAbove(analysis.behavioral_score, 8)
    /\ ScoreAbove(analysis.behavioral_score, 4)
    /\ analysis.threat_level = "CRITICAL"

\* the chain occurs in the history as a run of whole consecutive entries
OccursIn(history, chain) ==
    \E i \in 1..(Len(history) - Len(chain) + 1) :
        SubSeq(history, i, i + Len(chain) - 1) = chain

\* C26: a pattern is reported for a history exactly when its chain occurs in
\* the history as a contiguous run of whole entries; part of an attack-type
\* name never matches, also when one name ends or begins another.
C26_WholeEntries ==
    (Analysed /\ Len(History) >= 2) =>
        \A i \in 1..Len(attack_patterns) :
            Listed(attack_patterns[i].name) >= 1
                <=> OccursIn(History, attack_patterns[i].pattern)

AttackersAlert ==
    "ALERT: High number of active attackers - possible coordinated attack"
PatternsRecommendation ==
    "Multiple attack patterns detected - review security posture"

Recommends(text) ==
    \E i \in 1..Len(campaign.recommendations) :
        campaign.recommendations[i] = text

\* C23: the campaign report carries the attackers alert exactly when more
\* than 10 sequences are active, and the multiple-patterns recommendation
\* only when at least two distinct patterns were detected across the
\* active sequences.
C23_ReportThresholds ==
    campaign.outcome = "returned" =>
        /\ Recommends(AttackersAlert)
              <=> Cardinality(DOMAIN active_sequences) > 10
        /\ Recommends(PatternsRecommendation)
              => Len(campaign.attack_patterns_detected) >= 2

----------------------------------------------------------------------------
(* Stale sequences across a restart, checked under SpecPersist *)

Stale(seq) == seq.last_seen # NoneNum /\ seq.last_seen < now - 2 * time_window

TopSources(sequences) ==
    LET top == get_top_attackers(sequences, 10)
    IN  {top[i].source_ip : i \in 1..Len(top)}

\* C24: a restart loads the whole persisted map with no expiry check - a
\* persisted sequence last seen more than 2 * time_window ago is in the
\* store after the load and is counted by get_top_attackers and by
\* generate_campaign_report; it stays while the clock advances and while
\* calls return nothing or raise, until a call that records an event of
\* another source reaches the sweep, which removes it.
C24_LoadedWithoutExpiry ==
    [][ /\ (calls' = calls /\ now' = now /\ state_file.complete) =>
              LET persisted == pickle_load(state_file.stream)
              IN  /\ DOMAIN active_sequences' = DOMAIN persisted
                  /\ TopSources(active_sequences') = DOMAIN persisted
                  /\ generate_campaign_report(active_sequences', now')
                        .total_active_attackers = Cardinality(DOMAIN persisted)
        /\ (now' # now \/ (calls' = calls + 1
                             /\ analysis'.outcome \in {"None", "raised"})) =>
              \A ip \in DOMAIN active_sequences :
                  /\ ip \in DOMAIN active_sequences'
                  /\ ip \in TopSources(active_sequences')
        /\ (calls' = calls + 1 /\ analysis'.outcome = "returned") =>
              \A ip \in DOMAIN active_sequences \ {analysis'.source_ip} :
                  Stale(active_sequences[ip])
                      => ip \notin DOMAIN active_sequences'
      ]_vars

\* after a restart (the empty sequence a failed call had left for its source
\* is gone) the store holds a persisted sequence that is stale, and the
\* reports count it
C24_Witness ==
    /\ state_file.complete
    /\ active_sequences = pickle_load(state_file.stream)
    /\ analysis.outcome = "raised"
    /\ source_ip_of(call.log_data) \notin DOMAIN active_sequences
    /\ \E ip \in DOMAIN active_sequences :
          /\ Stale(active_sequences[ip])
          /\ ip \in TopSources(active_sequences)
    /\ generate_campaign_report(active_sequences, now).total_active_attackers
          = Cardinality(DOMAIN active_sequences)

----------------------------------------------------------------------------
(* Benign events, checked under SpecStore *)

\* the MITREMapper of the ensemble, whatever matrix file it was built from
LoadedMappers == {LoadMitreMapper(file) : file \in MatrixFiles}

\* C25: an event classified NORMAL has no downstream effect - process_attack
\* called with NORMAL returns None and leaves the store and the state file
\* as they were (no sequence created, no record or counter changed, no
\* sweep, no save); and PALADINEnsemble.predict, applied in the state
\* reached to any event whose final classification is NORMAL, attaches no
\* mitre block and no lstm block, does not call process_attack and leaves
\* the store and the state file alone.
C25_NormalHasNoEffect ==
    /\ [][ (calls' = calls + 1 /\ call'.attack_type = "NORMAL") =>
              /\ analysis'.outcome = "None"
              /\ active_sequences' = active_sequences
              /\ state_file' = state_file
         ]_vars
    /\ [](\A mapper \in LoadedMappers, log_data \in PredictLogs,
              unsupervised \in UnsupervisedVerdicts,
              supervised \in SupervisedVerdicts :
              FinalClassification(unsupervised, supervised).final_type = "NORMAL"
              => LET r == predict(mapper, active_sequences, state_file,
                                  log_data, unsupervised, supervised, now)
                 IN  /\ r.log_data.ai_attack_type = "NORMAL"
                     /\ Absent(r.log_data.mitre)
                     /\ Absent(r.log_data.lstm)
                     /\ ~r.called
                     /\ r.sequences = active_sequences
                     /\ r.file = state_file)

\* process_attack has returned None for a NORMAL event of a source without a
\* sequence, at a time when the store holds a sequence the sweep would
\* remove
C25_Witness ==
    /\ call.attack_type = "NORMAL"
    /\ analysis.outcome = "None"
    /\ source_ip_of(call.log_data) \notin DOMAIN active_sequences
    /\ \E ip \in DOMAIN active_sequences : Stale(active_sequences[ip])
    /\ state_file.complete
    /\ \E unsupervised \in UnsupervisedVerdicts,
          supervised \in SupervisedVerdicts :
          FinalClassification(unsupervised, supervised).final_type = "NORMAL"

----------------------------------------------------------------------------
(* Termination of the SMTP handler, checked under SpecSmtp *)

\* C30: handle_connection terminates when the client has closed the
\* connection, in every protocol state, the collection of a message body
\* after DATA included - the read that meets the end of the stream is the
\* last one: the handler returns and the server is back in accept().
C30_ReturnsOnClose ==
    [][ smtp'.eof_reads = smtp.eof_reads + 1 => smtp'.pc = "accept" ]_vars

====
